---------------------------- MODULE Spec2Model ----------------------------
(***************************************************************************)
(* Model of the Access Forensics executor ect.js (SKU-A v3.5): load-time   *)
(* validation, the step execution loop with its selector stabilization     *)
(* policy, the goal check, and the finally-phase that seals the packet.    *)
(*                                                                         *)
(* Strings that the code compares or sorts (paths, allegation ids) are     *)
(* sequences of ASCII codes, so that folding, trimming and collation are   *)
(* computed rather than assumed.  The page-automation provider (Playwright)*)
(* is an environment: every call into it ends, with a nondeterministic     *)
(* result.  File-system writes into the fresh run directory succeed.       *)
(***************************************************************************)
EXTENDS Integers, Sequences, FiniteSets, TLC

(***************************************************************************)
(* Bounds of the model.                                                    *)
(***************************************************************************)
\* longest plan (flow.steps) drawn in Init
MaxSteps == 2
\* largest match count a selector sample can return
MaxCount == 2
\* most capture calls (screenshot, HTML, accessibility snapshot) that fail in one run
MaxShotFailures == 1
\* last step index at which the HTML or the accessibility snapshot fails
MaxRawFailureStep == 1

(***************************************************************************)
(* Program constants.                                                      *)
(***************************************************************************)
INTERACTIVE_STEPS == {"click_selector", "type_selector", "fill", "press", "tab"}

PASSIVE_ALLOWED_STEPS == {"wait_selector", "scroll", "assert_text_present", "assert_url_contains"}

STABILIZE_MS == 150

(***************************************************************************)
(* ASCII strings as code sequences.                                        *)
(***************************************************************************)
S_README == <<48, 48, 95, 82, 69, 65, 68, 77, 69, 46, 116, 120, 116>>
S_ReportDir == <<48, 49, 95, 82, 101, 112, 111, 114, 116, 47>>
S_ExecutionReport == <<69, 120, 101, 99, 117, 116, 105, 111, 110, 95, 82, 101, 112, 111, 114, 116, 46, 116, 120, 116>>
S_EvidenceIndex == <<101, 118, 105, 100, 101, 110, 99, 101, 95, 105, 110, 100, 101, 120, 46, 106, 115, 111, 110>>
S_InteractionLog == <<105, 110, 116, 101, 114, 97, 99, 116, 105, 111, 110, 95, 108, 111, 103, 46, 106, 115, 111, 110>>
S_PolicyOverrides == <<112, 111, 108, 105, 99, 121, 95, 111, 118, 101, 114, 114, 105, 100, 101, 115, 46, 106, 115, 111, 110>>
S_ExhibitsDir == <<48, 50, 95, 69, 120, 104, 105, 98, 105, 116, 115, 47>>
S_GEN == <<71, 69, 78>>
S_gen == <<103, 101, 110>>
S_ScreenshotStep == <<47, 115, 99, 114, 101, 101, 110, 115, 104, 111, 116, 95, 115, 116, 101, 112, 95>>
S_Png == <<46, 112, 110, 103>>
S_VerificationDir == <<48, 51, 95, 86, 101, 114, 105, 102, 105, 99, 97, 116, 105, 111, 110, 47>>
S_Status == <<83, 84, 65, 84, 85, 83, 46, 116, 120, 116>>
S_Console == <<99, 111, 110, 115, 111, 108, 101, 46, 106, 115, 111, 110>>
S_RunMetadata == <<114, 117, 110, 95, 109, 101, 116, 97, 100, 97, 116, 97, 46, 106, 115, 111, 110>>
S_Manifest == <<109, 97, 110, 105, 102, 101, 115, 116, 46, 106, 115, 111, 110>>
S_PacketHash == <<112, 97, 99, 107, 101, 116, 95, 104, 97, 115, 104, 46, 116, 120, 116>>
S_ManifestCore == <<109, 97, 110, 105, 102, 101, 115, 116, 95, 99, 111, 114, 101, 46, 106, 115, 111, 110>>
\* raw allegation ids used by the plans of the model: "A1" and "Gen"
\* the words of NOTE_BANNED_PATTERNS, in lower case
BannedWords ==
  [ wcag |-> <<119, 99, 97, 103>>,
    ada |-> <<97, 100, 97>>,
    title |-> <<116, 105, 116, 108, 101>>,
    iii |-> <<105, 105, 105>>,
    compliant |-> <<99, 111, 109, 112, 108, 105, 97, 110, 116>>,
    non |-> <<110, 111, 110>>,
    violation |-> <<118, 105, 111, 108, 97, 116, 105, 111, 110>>,
    violates |-> <<118, 105, 111, 108, 97, 116, 101, 115>>,
    inaccessible |-> <<105, 110, 97, 99, 99, 101, 115, 115, 105, 98, 108, 101>>,
    barrier |-> <<98, 97, 114, 114, 105, 101, 114>>,
    fail |-> <<102, 97, 105, 108>>,
    s |-> <<115>>,
    ed |-> <<101, 100>>,
    ure |-> <<117, 114, 101>>,
    pass |-> <<112, 97, 115, 115>>,
    es |-> <<101, 115>> ]
S_Redacted == <<91, 82, 69, 68, 65, 67, 84, 69, 68, 93>>

S_A1 == <<65, 49>>
S_Gen == <<71, 101, 110>>

IsUpper(c) == c >= 65 /\ c <= 90
IsLower(c) == c >= 97 /\ c <= 122
IsDigit(c) == c >= 48 /\ c <= 57

\* JavaScript evaluates an argument once, before the call: F applied to the
\* value of arg
CallByValue(F(_), arg) == CHOOSE r \in { F(v) : v \in {arg} } : TRUE

ToLowerChar(c) == IF IsUpper(c) THEN c + 32 ELSE c
ToUpperChar(c) == IF IsLower(c) THEN c - 32 ELSE c
ToLowerStr(s) == SubSeq([i \in 1..Len(s) |-> ToLowerChar(s[i])], 1, Len(s))
ToUpperStr(s) == SubSeq([i \in 1..Len(s) |-> ToUpperChar(s[i])], 1, Len(s))
\* JS String.prototype.trim on ASCII: whitespace is 9..13 and 32
IsSpace(c) == c = 32 \/ (c >= 9 /\ c <= 13)

RECURSIVE TrimLeft(_)
TrimLeft(s) == IF s # <<>> /\ IsSpace(Head(s)) THEN TrimLeft(Tail(s)) ELSE s

RECURSIVE TrimRight(_)
TrimRight(s) ==
  IF s # <<>> /\ IsSpace(s[Len(s)]) THEN TrimRight(SubSeq(s, 1, Len(s) - 1)) ELSE s

Trim(s) == CallByValue(TrimRight, TrimLeft(s))

\* .replace(/[^a-z0-9]+/g, "_"): every maximal run of other characters
\* becomes one underscore
RECURSIVE ReplaceNonAlnumRuns(_, _)
ReplaceNonAlnumRuns(s, inRun) ==
  IF s = <<>> THEN <<>>
  ELSE IF IsLower(Head(s)) \/ IsDigit(Head(s))
       THEN <<Head(s)>> \o ReplaceNonAlnumRuns(Tail(s), FALSE)
       ELSE IF inRun THEN ReplaceNonAlnumRuns(Tail(s), TRUE)
            ELSE <<95>> \o ReplaceNonAlnumRuns(Tail(s), TRUE)

\* .replace(/^_+|_+$/g, "")
RECURSIVE StripLeadingUnderscores(_)
StripLeadingUnderscores(s) ==
  IF s # <<>> /\ Head(s) = 95 THEN StripLeadingUnderscores(Tail(s)) ELSE s

RECURSIVE StripTrailingUnderscores(_)
StripTrailingUnderscores(s) ==
  IF s # <<>> /\ s[Len(s)] = 95
  THEN StripTrailingUnderscores(SubSeq(s, 1, Len(s) - 1)) ELSE s

safeToken(s) ==
  CallByValue(LAMBDA t : IF t = <<>> THEN S_gen ELSE t,
    CallByValue(StripTrailingUnderscores,
      CallByValue(StripLeadingUnderscores,
        CallByValue(LAMBDA v : ReplaceNonAlnumRuns(v, FALSE),
          CallByValue(ToLowerStr, Trim(s))))))

\* rawId = <<>> stands for an absent, null or empty id
canonicalFolderForAllegation(rawId) ==
  CallByValue(LAMBDA raw : IF raw = <<>> THEN S_GEN
                           ELSE IF ToUpperStr(raw) = S_GEN THEN S_GEN
                           ELSE safeToken(raw),
              Trim(rawId))

canonicalAllegationId(rawId) ==
  CallByValue(LAMBDA raw : IF raw = <<>> THEN S_GEN
                           ELSE IF ToUpperStr(raw) = S_GEN THEN S_GEN
                           ELSE raw,
              Trim(rawId))

\* String(n).padStart(3, "0") for a step number below 1000
pad3(n) == <<48 + (n \div 100), 48 + ((n \div 10) % 10), 48 + (n % 10)>>


(***************************************************************************)
(* String comparison.                                                      *)
(***************************************************************************)
\* a.localeCompare(b) of V8/ICU (root collation) on the ASCII alphabet of
\* packet paths: punctuation ("_" < "." < "/") sorts before digits, digits
\* before letters, and letters compare without case at the primary level;
\* only when the whole strings are equal at that level does case decide,
\* lowercase first.
PrimaryWeight(c) ==
  IF c = 95 THEN 1
  ELSE IF c = 46 THEN 2
  ELSE IF c = 47 THEN 3
  ELSE IF IsDigit(c) THEN 10 + (c - 48)
  ELSE IF IsLower(c) \/ IsUpper(c) THEN 20 + (ToLowerChar(c) - 97)
  ELSE 4

\* the primary weights of a string, as a sequence
PrimaryKey(str) == SubSeq([i \in 1..Len(str) |-> PrimaryWeight(str[i])], 1, Len(str))

Min(m, n) == IF m < n THEN m ELSE n

\* the least i in lo..hi with x[i] # y[i], or hi + 1 if there is none
RECURSIVE FirstDiff(_, _, _, _)
FirstDiff(x, y, lo, hi) ==
  IF lo > hi THEN lo
  ELSE IF lo = hi THEN (IF x[lo] = y[lo] THEN hi + 1 ELSE lo)
  ELSE CallByValue(LAMBDA mid : IF SubSeq(x, lo, mid) = SubSeq(y, lo, mid)
                                THEN FirstDiff(x, y, mid + 1, hi)
                                ELSE FirstDiff(x, y, lo, mid),
                   (lo + hi) \div 2)

\* lexicographic comparison of two sequences of numbers: -1, 0 or 1; a
\* proper prefix sorts first
CompareSeq(x, y) ==
  LET n == Min(Len(x), Len(y))
  IN CallByValue(LAMBDA d : IF d <= n THEN (IF x[d] < y[d] THEN -1 ELSE 1)
                            ELSE IF Len(x) < Len(y) THEN -1
                            ELSE IF Len(x) > Len(y) THEN 1
                            ELSE 0,
                 FirstDiff(x, y, 1, n))

\* case level, for strings that are equal at the primary level
RECURSIVE CompareCase(_, _, _)
CompareCase(a, b, i) ==
  IF i > Len(a) \/ i > Len(b) THEN 0
  ELSE IF a[i] = b[i] THEN CompareCase(a, b, i + 1)
  ELSE IF IsLower(a[i]) /\ IsUpper(b[i]) THEN -1
  ELSE IF IsUpper(a[i]) /\ IsLower(b[i]) THEN 1
  ELSE CompareCase(a, b, i + 1)

\* localeCompare on strings whose primary keys ka and kb are already known
CompareCollated(ka, a, kb, b) ==
  CallByValue(LAMBDA p : IF p # 0 THEN p ELSE CompareCase(a, b, 1),
              CompareSeq(ka, kb))

localeCompare(a, b) == CompareCollated(PrimaryKey(a), a, PrimaryKey(b), b)

\* byte-lexicographic order of two ASCII strings (what the sealing contract
\* calls "sorted by path")
ByteLess(a, b) == CompareSeq(a, b) < 0

(***************************************************************************)
(* Files, hashing and serialization.                                       *)
(***************************************************************************)
P_README == S_README
P_ExecutionReport == S_ReportDir \o S_ExecutionReport
P_EvidenceIndex == S_ReportDir \o S_EvidenceIndex
P_InteractionLog == S_ReportDir \o S_InteractionLog
P_PolicyOverrides == S_ReportDir \o S_PolicyOverrides
P_Status == S_VerificationDir \o S_Status
P_Console == S_VerificationDir \o S_Console
P_RunMetadata == S_VerificationDir \o S_RunMetadata
P_Manifest == S_VerificationDir \o S_Manifest
P_PacketHash == S_VerificationDir \o S_PacketHash

\* `02_Exhibits/${folder}/screenshot_step_${stepStr}.png`
ScreenshotPath(folder, n) ==
  S_ExhibitsDir \o folder \o S_ScreenshotStep \o pad3(n) \o S_Png

\* File contents are symbolic byte strings: the serialization that produced
\* them, the shape of the serialized value and the value itself.
\* writeJson(p, obj): JSON.stringify(obj, null, 2) + "\n", utf-8
writeJson(kind, obj) == [fmt |-> "JSON.stringify/2+LF", kind |-> kind, value |-> obj]

\* stableStringify(value, 2): key-sorted JSON + "\n"
stableStringify(kind, obj) == [fmt |-> "stable/2+LF", kind |-> kind, value |-> obj]

\* a plain text or binary file written as is
rawBytes(kind, obj) == [fmt |-> "raw", kind |-> kind, value |-> obj]

\* crypto.createHash("sha256").update(buf).digest("hex"): a symbolic,
\* collision-free digest in lowercase hex
sha256Bytes(buf) == [alg |-> "sha256", digest |-> "hex", of |-> buf]

\* fs.statSync(p).size of a symbolic content: a log grows with its entries
statSize(content) ==
  IF content.kind = "list" THEN 2 + Len(content.value) ELSE 1

\* fs.writeFileSync(p, c): create or overwrite
WriteFile(fls, p, c) == (p :> c) @@ fls


(***************************************************************************)
(* Plans.                                                                  *)
(***************************************************************************)
\* A step of flow.steps.  selector and text say whether the field is set;
\* allow_multiple_matches is "absent", "true" or "false"; goal_text is
\* "absent", "null" or "text"; allegation_id is the raw id (<<>> if unset).
Step(t, sel, amm, gt, aid) ==
  [type |-> t, selector |-> sel, allow_multiple_matches |-> amm,
   goal_text |-> gt, allegation_id |-> aid, text |-> TRUE]

\* the steps plans are built from
StepPool ==
  { Step("click_selector", TRUE, "absent", "absent", S_A1),
    Step("wait_selector", TRUE, "absent", "absent", <<>>),
    Step("wait_selector", TRUE, "true", "null", S_A1),
    Step("fill", TRUE, "false", "absent", <<>>),
    Step("scroll", FALSE, "absent", "text", S_Gen),
    Step("press", FALSE, "absent", "absent", <<>>),
    Step("assert_url_contains", FALSE, "absent", "absent", <<>>),
    Step("hover", TRUE, "absent", "absent", <<>>) }

\* The flow-level fields of the plans: flow.capture_mode ("absent" if unset),
\* flow.visual_only, flow.goal_text ("absent", "null" or "text") and the goal
\* ("none" if flow.goal_selector is unset, else flow.goal_expectation).
FlowHead(mode, visualOnly, gt, goal) ==
  [capture_mode |-> mode, visual_only |-> visualOnly, goal_text |-> gt, goal |-> goal]

FlowHeads ==
  { FlowHead("passive", FALSE, "absent", "none"),
    FlowHead("absent", TRUE, "null", "absent"),
    FlowHead("interactive", TRUE, "absent", "present"),
    FlowHead("absent", FALSE, "null", "none"),
    FlowHead("interactive", FALSE, "text", "none"),
    FlowHead("passive", FALSE, "text", "present"),
    FlowHead("hybrid", FALSE, "absent", "none") }

PlansOfLength(n) == [1..n -> StepPool]

\* every plan declares the allegation "A1"
Flows ==
  { [capture_mode |-> h.capture_mode, visual_only |-> h.visual_only,
     goal_text |-> h.goal_text, goal |-> h.goal,
     allegations |-> <<S_A1>>, steps |-> st] :
      h \in FlowHeads, st \in UNION { PlansOfLength(n) : n \in 0..MaxSteps } }

(***************************************************************************)
(* Log records.                                                            *)
(***************************************************************************)
\* an Error by the template of its message, with the numbers it carries
Err(kind, a, b) == [kind |-> kind, a |-> a, b |-> b]
NoError == Err("none", 0, 0)

\* `Failed at step ${stepIndex}: ${message}`
FailedAtStep(n, e) == [kind |-> "FailedAtStep", step |-> n, cause |-> e]

Note(text, a, b) == [text |-> text, a |-> a, b |-> b]
NoNote == Note("null", 0, 0)

LogEntry(idx, aid, action, result, err, note) ==
  [step_index |-> idx, allegation_id |-> aid, action |-> action,
   result |-> result, error_message |-> err, note |-> note]

ConsoleEvent(type, idx, a, b) == [type |-> type, step_index |-> idx, a |-> a, b |-> b]

\* a call into the provider, made while stepIndex was idx, with the number it
\* returned or was given (0 if none)
Call(idx, op, res) == [step_index |-> idx, op |-> op, res |-> res]

(***************************************************************************)
(* State.                                                                  *)
(***************************************************************************)
VARIABLES
  pc,              \* position of main
  flow,            \* the parsed flow plan
  runStatus,       \* "running", "success" or "error"
  runError,        \* NoError or the error recorded for the run
  stepIndex,
  interactionLog,
  evidenceIndex,
  consoleLog,
  files,           \* Deliverable_Packet: path -> content
  calls,           \* calls made into the page-automation provider
  exitCode,        \* -1 while the process runs
  note,            \* the argument of the next sanitizeNote call
  sanitized,       \* what the sanitizeNote calls so far returned
  noteLog,         \* the console log handed to sanitizeNote
  value,           \* the argument of the next stableStringify call
  serialized,      \* the stableStringify calls so far: argument and outcome
  outputTree,      \* the files of an output tree, before any seal
  packets,         \* the seals made of outputTree, one per run
  runDir,          \* the sealed directory handed to the verifier
  alteration,      \* what was done to runDir after it was sealed
  verdict,         \* what the verifier said about runDir
  planText,        \* the free text of a plan: a step's note, the flow's goal
  persisted,       \* the log notes and console events written for planText
  engines,         \* the SKUAEngine instances: chain head and journal of each
  presented,       \* a journal as handed to a verifier, and how it was altered
  chainVerdict,    \* what recomputing the chain of presented said
  legacy           \* the legacy executor at the end of a run: position and run directory

runVars == <<pc, flow, runStatus, runError, stepIndex, interactionLog,
          evidenceIndex, consoleLog, files, calls, exitCode>>

\* the state of the helper functions when they are exercised on their own
noteVars == <<note, sanitized, noteLog>>
stringifyVars == <<value, serialized>>
packetVars == <<outputTree, packets, runDir, alteration, verdict>>
planNoteVars == <<planText, persisted>>
journalVars == <<engines, presented, chainVerdict>>
legacyVars == <<legacy>>
extraVars == <<planNoteVars, journalVars, legacyVars>>
auxVars == <<noteVars, stringifyVars, packetVars, extraVars>>

vars == <<runVars, auxVars>>

\* JavaScript values handed to the helpers
JsNull == [t |-> "null"]
JsString(str) == [t |-> "string", s |-> str]

\* no helper is being exercised
NoteOff ==
  /\ note = JsNull
  /\ sanitized = <<>>
  /\ noteLog = <<>>

StringifyOff ==
  /\ value = JsNull
  /\ serialized = <<>>

PacketOff ==
  /\ outputTree = << >>
  /\ packets = <<>>
  /\ runDir = << >>
  /\ alteration = "none"
  /\ verdict = [verify_packet |-> "none", af_verify |-> "none"]

PlanNoteOff ==
  /\ planText = JsNull
  /\ persisted = <<>>

JournalOff ==
  /\ engines = <<>>
  /\ presented = <<>>
  /\ chainVerdict = "none"

LegacyOff == legacy = <<>>

ExtraOff == PlanNoteOff /\ JournalOff /\ LegacyOff

AuxOff == NoteOff /\ StringifyOff /\ PacketOff /\ ExtraOff

\* main is not running
MainOff ==
  /\ pc = "off"
  /\ flow = <<>>
  /\ runStatus = "running"
  /\ runError = [kind |-> "none", a |-> 0, b |-> 0]
  /\ stepIndex = 0
  /\ interactionLog = <<>>
  /\ evidenceIndex = <<>>
  /\ consoleLog = <<>>
  /\ files = << >>
  /\ calls = <<>>
  /\ exitCode = -1


(***************************************************************************)
(* Selector resolution.  c1 and c2 are the two count samples the provider  *)
(* returns; every operator yields the error it throws (NoError if none),   *)
(* the provider calls it made and the log records it pushed.               *)
(***************************************************************************)
\* stabilizedCount that reports the first sample as the final count
stabilizedCount_FinalIsFirst(c1, c2, idx, aid) ==
  [first |-> c1, final |-> c1, unstable |-> (c1 # c2),
   calls |-> <<Call(idx, "waitForSelector", 0), Call(idx, "count", c1),
               Call(idx, "waitForTimeout", STABILIZE_MS), Call(idx, "count", c2)>>,
   clog |-> IF c1 # c2
            THEN <<ConsoleEvent("selector_instability", idx, c1, c2)
                     @@ [window_ms |-> STABILIZE_MS]>>
            ELSE <<>>,
   ilog |-> IF c1 # c2
            THEN <<LogEntry(idx, canonicalAllegationId(aid), "instability_log",
                            "info", NoError, Note("instability", c1, c2))>>
            ELSE <<>>]

\* stabilizedCount that files its instability entry under the next step index
stabilizedCount_LogsNextIndex(c1, c2, idx, aid) ==
  [first |-> c1, final |-> c2, unstable |-> (c1 # c2),
   calls |-> <<Call(idx, "waitForSelector", 0), Call(idx, "count", c1),
               Call(idx, "waitForTimeout", STABILIZE_MS), Call(idx, "count", c2)>>,
   clog |-> IF c1 # c2
            THEN <<ConsoleEvent("selector_instability", idx, c1, c2)
                     @@ [window_ms |-> STABILIZE_MS]>>
            ELSE <<>>,
   ilog |-> IF c1 # c2
            THEN <<LogEntry(idx + 1, canonicalAllegationId(aid), "instability_log",
                            "info", NoError, Note("instability", c1, c2))>>
            ELSE <<>>]

stabilizedCount(c1, c2, idx, aid) ==
  [first |-> c1, final |-> c2, unstable |-> (c1 # c2),
   calls |-> <<Call(idx, "waitForSelector", 0), Call(idx, "count", c1),
               Call(idx, "waitForTimeout", STABILIZE_MS), Call(idx, "count", c2)>>,
   clog |-> IF c1 # c2
            THEN <<ConsoleEvent("selector_instability", idx, c1, c2)
                     @@ [window_ms |-> STABILIZE_MS]>>
            ELSE <<>>,
   ilog |-> IF c1 # c2
            THEN <<LogEntry(idx, canonicalAllegationId(aid), "instability_log",
                            "info", NoError, Note("instability", c1, c2))>>
            ELSE <<>>]

\* strictSingle that takes the first of several matches instead of failing
strictSingle_PicksFirst(hasSelector, c1, c2, idx, aid) ==
  IF ~hasSelector
  THEN [err |-> Err("StepRequiresSelector", 0, 0), calls |-> <<>>,
        clog |-> <<>>, ilog |-> <<>>]
  ELSE LET sample == stabilizedCount(c1, c2, idx, aid)
       IN [err |-> IF sample.final = 0 THEN Err("NotFound", 0, 0) ELSE NoError,
           calls |-> sample.calls, clog |-> sample.clog, ilog |-> sample.ilog]

strictSingle(hasSelector, c1, c2, idx, aid) ==
  IF ~hasSelector
  THEN [err |-> Err("StepRequiresSelector", 0, 0), calls |-> <<>>,
        clog |-> <<>>, ilog |-> <<>>]
  ELSE LET sample == stabilizedCount(c1, c2, idx, aid)
           c == sample.final
       IN [err |-> IF c = 0 THEN Err("NotFound", 0, 0)
                   ELSE IF c > 1 THEN Err("Ambiguity", c, 0)
                   ELSE NoError,
           calls |-> sample.calls, clog |-> sample.clog, ilog |-> sample.ilog]

\* anyVisibleMatch that is satisfied by attached matches alone
anyVisibleMatch_AttachedOnly(count, visible) == count >= 1

\* anyVisibleMatch: one isVisible probe per match, up to 25; `visible` is
\* whether some probe answers true
anyVisibleMatch(count, visible) == count >= 1 /\ visible

\* waitSelector whose override path records no policy_override event
waitSelector_SilentOverride(hasSelector, allowMultiple, env, idx, aid) ==
  IF ~hasSelector
  THEN [err |-> Err("WaitRequiresSelector", 0, 0), calls |-> <<>>,
        clog |-> <<>>, ilog |-> <<>>]
  ELSE IF ~allowMultiple
  THEN LET r == strictSingle(hasSelector, env.c1, env.c2, idx, aid)
       IN IF r.err.kind # "none" THEN r
          ELSE [r EXCEPT !.calls = @ \o <<Call(idx, "waitFor", 0)>>,
                         !.err = IF env.actOk THEN NoError
                                 ELSE Err("ActionError", 0, 0)]
  ELSE LET sample == stabilizedCount(env.c1, env.c2, idx, aid)
           cFinal == sample.final
           probe == <<Call(idx, "isVisible", IF env.visible THEN 1 ELSE 0)>>
       IN [err |-> IF cFinal = 0 THEN Err("NotFound", 0, 0)
                   ELSE IF sample.unstable
                   THEN Err("Unstable", sample.first, sample.final)
                   ELSE IF ~anyVisibleMatch(cFinal, env.visible)
                   THEN Err("NoVisibleMatch", cFinal, 0)
                   ELSE NoError,
           calls |-> IF cFinal = 0 \/ sample.unstable THEN sample.calls
                     ELSE IF ~anyVisibleMatch(cFinal, env.visible)
                     THEN sample.calls \o probe
                     ELSE sample.calls \o probe \o <<Call(idx, "waitForFunction", 0)>>,
           clog |-> sample.clog, ilog |-> sample.ilog]

waitSelector(hasSelector, allowMultiple, env, idx, aid) ==
  IF ~hasSelector
  THEN [err |-> Err("WaitRequiresSelector", 0, 0), calls |-> <<>>,
        clog |-> <<>>, ilog |-> <<>>]
  ELSE IF ~allowMultiple
  THEN LET r == strictSingle(hasSelector, env.c1, env.c2, idx, aid)
       IN IF r.err.kind # "none" THEN r
          ELSE [r EXCEPT !.calls = @ \o <<Call(idx, "waitFor", 0)>>,
                         !.err = IF env.actOk THEN NoError
                                 ELSE Err("ActionError", 0, 0)]
  ELSE LET sample == stabilizedCount(env.c1, env.c2, idx, aid)
           cFinal == sample.final
           override ==
             [clog |-> sample.clog \o
                        <<ConsoleEvent("policy_override", idx, cFinal,
                                       IF sample.unstable THEN sample.first ELSE cFinal)>>,
              ilog |-> sample.ilog \o
                        <<LogEntry(idx, canonicalAllegationId(aid), "policy_override",
                                   "info", NoError,
                                   Note(IF sample.unstable THEN "unstable" ELSE "stable",
                                        sample.first, cFinal))>>]
       IN IF cFinal = 0
          THEN [err |-> Err("NotFound", 0, 0), calls |-> sample.calls,
                clog |-> sample.clog, ilog |-> sample.ilog]
          ELSE IF sample.unstable
          THEN [err |-> Err("Unstable", sample.first, sample.final),
                calls |-> sample.calls, clog |-> override.clog, ilog |-> override.ilog]
          ELSE IF ~anyVisibleMatch(cFinal, env.visible)
          THEN [err |-> Err("NoVisibleMatch", cFinal, 0),
                calls |-> sample.calls \o
                          <<Call(idx, "isVisible", IF env.visible THEN 1 ELSE 0)>>,
                clog |-> override.clog, ilog |-> override.ilog]
          ELSE [err |-> NoError,
                calls |-> sample.calls \o
                          <<Call(idx, "isVisible", IF env.visible THEN 1 ELSE 0),
                            Call(idx, "waitForFunction", 0)>>,
                clog |-> override.clog, ilog |-> override.ilog]

\* a resolved target followed by one provider action that may fail
ResolveThenAct(s, env, idx, op) ==
  LET r == strictSingle(s.selector, env.c1, env.c2, idx,
                          canonicalAllegationId(s.allegation_id))
  IN IF r.err.kind # "none" THEN r
     ELSE [r EXCEPT !.calls = @ \o <<Call(idx, op, 0)>>,
                    !.err = IF env.actOk THEN NoError ELSE Err("ActionError", 0, 0)]

\* a provider action without a selector
ActOnly(env, idx, op) ==
  [err |-> IF env.actOk THEN NoError ELSE Err("ActionError", 0, 0),
   calls |-> <<Call(idx, op, 0)>>, clog |-> <<>>, ilog |-> <<>>]

Thrown(e) == [err |-> e, calls |-> <<>>, clog |-> <<>>, ilog |-> <<>>]

\* PolicyGate that objects to allow_multiple_matches only when it is true
PolicyGate_OnlyTrueFlag(s) ==
  IF s.allow_multiple_matches = "true" /\ s.type # "wait_selector"
  THEN Err("PolicyViolation:allow_multiple_matches", 0, 0)
  ELSE IF s.goal_text \notin {"absent", "null"}
  THEN Err("PolicyViolation:goal_text", 0, 0)
  ELSE NoError

\* PolicyGate without the goal_text check
PolicyGate_NoGoalText(s) ==
  IF s.allow_multiple_matches # "absent" /\ s.type # "wait_selector"
  THEN Err("PolicyViolation:allow_multiple_matches", 0, 0)
  ELSE NoError

\* the two policy checks at the head of executeStep: the PolicyViolation
\* they raise through hardFailPolicy, or NoError
PolicyGate(s) ==
  IF s.allow_multiple_matches # "absent" /\ s.type # "wait_selector"
  THEN Err("PolicyViolation:allow_multiple_matches", 0, 0)
  ELSE IF s.goal_text \notin {"absent", "null"}
  THEN Err("PolicyViolation:goal_text", 0, 0)
  ELSE NoError

executeStep(s, env, idx) ==
  LET t == s.type
  IN IF PolicyGate(s).kind # "none" THEN Thrown(PolicyGate(s))
     ELSE IF t = "wait_selector"
     THEN waitSelector(s.selector, s.allow_multiple_matches = "true", env, idx,
                       canonicalAllegationId(s.allegation_id))
     ELSE IF t = "click_selector" THEN ResolveThenAct(s, env, idx, "click")
     ELSE IF t \in {"type_selector", "fill"} THEN ResolveThenAct(s, env, idx, "fill")
     ELSE IF t = "press" THEN ActOnly(env, idx, "keyboard.press")
     ELSE IF t = "tab" THEN ActOnly(env, idx, "keyboard.press")
     ELSE IF t = "scroll" THEN ActOnly(env, idx, "mouse.wheel")
     ELSE IF t = "assert_text_present"
     THEN IF ~s.text THEN Thrown(Err("AssertRequiresText", 0, 0))
          ELSE ActOnly(env, idx, "waitForFunction")
     ELSE IF t = "assert_url_contains"
     THEN IF ~s.text THEN Thrown(Err("AssertRequiresText", 0, 0))
          ELSE [err |-> IF env.actOk THEN NoError ELSE Err("UrlMismatch", 0, 0),
                calls |-> <<Call(idx, "url", 0)>>, clog |-> <<>>, ilog |-> <<>>]
     ELSE Thrown(Err("UnknownStepType", 0, 0))

\* the outcomes the provider can give one step
StepEnvs ==
  [c1 : 0..MaxCount, c2 : 0..MaxCount, visible : BOOLEAN, actOk : BOOLEAN]

(***************************************************************************)
(* Evidence capture.                                                       *)
(***************************************************************************)
\* the exhibit folders main creates: one per declared allegation, and GEN
ExhibitFolders(f) ==
  {S_GEN} \cup { canonicalFolderForAllegation(f.allegations[i]) : i \in 1..Len(f.allegations) }

\* raw HTML and accessibility snapshots are retained
RETAIN_RAW == TRUE

\* an evidence_error event of the console log
EvidenceError(idx, message) ==
  ConsoleEvent("evidence_error", idx, 0, 0) @@ [message |-> message]

\* the page calls captureEvidence makes
CaptureOps == {"screenshot", "content", "accessibility.snapshot"}

\* the page calls of one capture; res 1: the call returned, 0: it threw
CaptureCalls(idx, cap) ==
  <<Call(idx, "screenshot", IF cap.shot THEN 1 ELSE 0)>>
  \o (IF RETAIN_RAW
      THEN <<Call(idx, "content", IF cap.html THEN 1 ELSE 0),
             Call(idx, "accessibility.snapshot", IF cap.ax THEN 1 ELSE 0)>>
      ELSE <<>>)

\* captureEvidence that numbers its records from zero
captureEvidence_ZeroBased(fls, idx, allegationIdRaw, cap) ==
  LET aidRaw == canonicalAllegationId(allegationIdRaw)
      folder == canonicalFolderForAllegation(aidRaw)
      relShot == ScreenshotPath(folder, idx - 1)
  IN [files |-> IF cap.shot THEN WriteFile(fls, relShot, rawBytes("png", idx - 1)) ELSE fls,
      clog |-> (IF cap.shot THEN <<>> ELSE <<EvidenceError(idx, "Screenshot failed")>>)
               \o (IF RETAIN_RAW /\ ~cap.html
                   THEN <<EvidenceError(idx, "HTML capture failed")>> ELSE <<>>),
      rec |-> [step_index |-> idx - 1, allegation_id |-> aidRaw, folder |-> folder,
               rel_path |-> relShot,
               raw_html |-> IF RETAIN_RAW /\ cap.html THEN "html" ELSE "null",
               raw_ax |-> IF ~RETAIN_RAW THEN "null"
                          ELSE IF cap.ax THEN "snapshot" ELSE "error"],
      calls |-> CaptureCalls(idx, cap)]

\* captureEvidence(label, allegationIdRaw) at step idx; cap tells which of the
\* screenshot, the HTML and the accessibility snapshot were captured.  Yields
\* the files, the console events and the index record.
captureEvidence(fls, idx, allegationIdRaw, cap) ==
  LET aidRaw == canonicalAllegationId(allegationIdRaw)
      folder == canonicalFolderForAllegation(aidRaw)
      relShot == ScreenshotPath(folder, idx)
  IN [files |-> IF cap.shot THEN WriteFile(fls, relShot, rawBytes("png", idx)) ELSE fls,
      clog |-> (IF cap.shot THEN <<>> ELSE <<EvidenceError(idx, "Screenshot failed")>>)
               \o (IF RETAIN_RAW /\ ~cap.html
                   THEN <<EvidenceError(idx, "HTML capture failed")>> ELSE <<>>),
      rec |-> [step_index |-> idx, allegation_id |-> aidRaw, folder |-> folder,
               rel_path |-> relShot,
               raw_html |-> IF RETAIN_RAW /\ cap.html THEN "html" ELSE "null",
               raw_ax |-> IF ~RETAIN_RAW THEN "null"
                          ELSE IF cap.ax THEN "snapshot" ELSE "error"],
      calls |-> CaptureCalls(idx, cap)]

\* a screenshot can be written only into a folder that exists; cls are the
\* page calls so far, of which at most MaxShotFailures capture calls failed;
\* the HTML and the accessibility snapshot fail at steps up to MaxRawFailureStep
CaptureOutcomes(f, idx, allegationIdRaw, cls) ==
  LET failures == Len(SelectSeq(cls, LAMBDA c :
                        c.op \in CaptureOps /\ c.res = 0))
      folderExists == canonicalFolderForAllegation(canonicalAllegationId(allegationIdRaw))
                        \in ExhibitFolders(f)
  IN { cap \in [shot : BOOLEAN, html : BOOLEAN, ax : BOOLEAN] :
         /\ ~folderExists => ~cap.shot
         /\ idx > MaxRawFailureStep => (cap.html /\ cap.ax)
         /\ LET free == (IF cap.shot \/ ~folderExists THEN 0 ELSE 1)
                        + (IF cap.html THEN 0 ELSE 1) + (IF cap.ax THEN 0 ELSE 1)
            IN free = 0 \/ failures + free <= MaxShotFailures }


(***************************************************************************)
(* Sealing.                                                                *)
(***************************************************************************)
\* walk(deliverableDir, deliverableDir): one entry per file of the tree, in
\* the order the directory listing gives them (any order: the sort follows)
RECURSIVE walkPaths(_, _)
walkPaths(fls, todo) ==
  IF todo = {} THEN <<>>
  ELSE CallByValue(LAMBDA rel :
                     <<[path |-> rel, sha256 |-> sha256Bytes(fls[rel]),
                        size_bytes |-> statSize(fls[rel])]>>
                     \o CallByValue(LAMBDA rest : walkPaths(fls, rest), todo \ {rel}),
                   CHOOSE q \in todo : TRUE)

walk(fls) == CallByValue(LAMBDA tree : walkPaths(tree, DOMAIN tree), fls)

\* Array.prototype.sort with the comparator
\* (a, b) => a.path.localeCompare(b.path); every entry carries the primary
\* key of its path, computed once
RECURSIVE InsertByPath(_, _)
InsertByPath(sorted, e) ==
  IF sorted = <<>> THEN <<e>>
  ELSE IF CompareCollated(e.key, e.entry.path, sorted[1].key, sorted[1].entry.path) < 0
       THEN <<e>> \o sorted
       ELSE <<sorted[1]>> \o CallByValue(LAMBDA rest : InsertByPath(rest, e), Tail(sorted))

RECURSIVE SortKeyed(_, _)
SortKeyed(keyed, n) ==
  IF n = 0 THEN <<>>
  ELSE CallByValue(LAMBDA sorted : InsertByPath(sorted, keyed[n]),
                   SortKeyed(keyed, n - 1))

sortFiles(entries) ==
  CallByValue(LAMBDA sorted : SubSeq([i \in 1..Len(sorted) |-> sorted[i].entry],
                                     1, Len(sorted)),
    CallByValue(LAMBDA keyed : SortKeyed(keyed, Len(keyed)),
      CallByValue(LAMBDA es : SubSeq([i \in 1..Len(es) |->
                                        [key |-> PrimaryKey(es[i].path), entry |-> es[i]]],
                                     1, Len(es)),
                  entries)))

\* the manifest object of a seal made when nowIso() returns now
BuildManifestAt(fls, now) ==
  [run_id |-> "runId", created_at_utc |-> now, files |-> sortFiles(walk(fls))]

\* BuildManifest that walks a tree in which packet_hash.txt already exists
BuildManifest_ListsPacketHash(fls) ==
  [run_id |-> "runId", created_at_utc |-> "nowIso",
   files |-> sortFiles(walk(WriteFile(fls, P_PacketHash, rawBytes("hash", <<>>))))]

\* the manifest object built from the tree as it is when the walk runs
BuildManifest(fls) == BuildManifestAt(fls, "nowIso")

\* manifestStr
ManifestStr(manifest) == stableStringify("object", manifest)

\* PacketHashFile without the trailing newline
PacketHashFile_NoNewline(manifestStr) == <<sha256Bytes(manifestStr)>>

\* the content written to packet_hash.txt: packetHash + "\n"
PacketHashFile(manifestStr) == <<sha256Bytes(manifestStr), "\n">>

\* the seal: manifest.json, then packet_hash.txt
SealPacket(fls) ==
  CallByValue(LAMBDA manifestStr :
                WriteFile(WriteFile(fls, P_Manifest, manifestStr),
                          P_PacketHash, rawBytes("hash", PacketHashFile(manifestStr))),
              ManifestStr(BuildManifest(fls)))

(***************************************************************************)
(* main.                                                                   *)
(***************************************************************************)
captureMode(f) ==
  IF f.capture_mode # "absent" THEN f.capture_mode
  ELSE IF f.visual_only THEN "passive" ELSE "interactive"

StepTypes(f) == { f.steps[i].type : i \in 1..Len(f.steps) }

\* flow-level goal_text is forbidden
RejectGoalText(f) == f.goal_text \notin {"absent", "null"}

RejectCaptureMode(f) == captureMode(f) \notin {"passive", "interactive"}

\* RejectPassive that looks at the first step only
RejectPassive_FirstStepOnly(f) ==
  /\ captureMode(f) = "passive"
  /\ Len(f.steps) > 0
  /\ f.steps[1].type \notin PASSIVE_ALLOWED_STEPS

\* passive mode: every step type must be in the allow-set
RejectPassive(f) ==
  captureMode(f) = "passive" /\ ~(StepTypes(f) \subseteq PASSIVE_ALLOWED_STEPS)

\* RejectQualityGate with every() in place of some()
RejectQualityGate_Every(f) ==
  captureMode(f) = "interactive" /\ ~(StepTypes(f) \subseteq INTERACTIVE_STEPS)

\* interactive mode quality gate: some step type must be interactive
RejectQualityGate(f) ==
  captureMode(f) = "interactive" /\ StepTypes(f) \cap INTERACTIVE_STEPS = {}

\* the load-time checks that end the process with exit code 1
LoadRejects(f) ==
  RejectGoalText(f) \/ RejectCaptureMode(f) \/ RejectPassive(f) \/ RejectQualityGate(f)

\* run metadata that keeps the status it was first written with
RunMetadata_StaysRunning(mode, status, err) ==
  [run_id |-> "runId", capture_mode |-> mode, started_at_utc |-> "nowIso",
   status |-> "running", error |-> err,
   stabilization |-> [window_ms |-> STABILIZE_MS]]

\* runMetadata with the keys main sets: there is no key that classifies the
\* error
RunMetadata(mode, status, err) ==
  [run_id |-> "runId", capture_mode |-> mode, started_at_utc |-> "nowIso",
   status |-> status, error |-> err,
   stabilization |-> [window_ms |-> STABILIZE_MS]]

\* statusBanner: the labelled lines of STATUS.txt, by label
StatusBanner(mode, status, err) ==
  [l \in {"RUN STATUS", "CAPTURE MODE", "RUN ID", "START (UTC)", "END (UTC)", "ERROR"} |->
     IF l = "RUN STATUS" THEN [text |-> status]
     ELSE IF l = "CAPTURE MODE" THEN [text |-> mode]
     ELSE IF l = "RUN ID" THEN [text |-> "runId"]
     ELSE IF l = "ERROR" THEN [error |-> err]
     ELSE [text |-> "nowIso"]]

Init ==
  /\ pc = "load"
  /\ flow \in Flows
  /\ runStatus = "running"
  /\ runError = NoError
  /\ stepIndex = 0
  /\ interactionLog = <<>>
  /\ evidenceIndex = <<>>
  /\ consoleLog = <<>>
  /\ files = << >>
  /\ calls = <<>>
  /\ exitCode = -1
  /\ AuxOff

\* argument checks, plan validation, run directory, first metadata and README
Load ==
  /\ pc = "load"
  /\ UNCHANGED auxVars
  /\ IF LoadRejects(flow)
     THEN /\ pc' = "done"
          /\ exitCode' = 1
          /\ UNCHANGED files
     ELSE /\ pc' = "launch"
          /\ files' = WriteFile(WriteFile(files, P_RunMetadata,
                                          writeJson("object", RunMetadata(captureMode(flow), "running", NoError))),
                                P_README, rawBytes("text", "README"))
          /\ UNCHANGED exitCode
  /\ UNCHANGED <<flow, runStatus, runError, stepIndex, interactionLog,
                 evidenceIndex, consoleLog, calls>>

\* Catch with the process ending in the catch clause, before the finally
\* block
Catch_ExitsUnsealed(e) ==
  /\ runStatus' = "error"
  /\ runError' = e
  /\ pc' = "done"

\* the catch clause: runStatus = "error", runError = e.message
Catch(e) ==
  /\ runStatus' = "error"
  /\ runError' = e
  /\ pc' = "finally"

\* chromium.launch, newContext, tracing.start, newPage
Launch ==
  /\ pc = "launch"
  /\ UNCHANGED auxVars
  /\ \E ok \in BOOLEAN :
       /\ calls' = calls \o <<Call(0, "launch", 0)>>
       /\ IF ok
          THEN /\ pc' = "navigate"
               /\ files' = WriteFile(files, P_RunMetadata,
                                     writeJson("object", RunMetadata(captureMode(flow), "running", NoError)))
               /\ UNCHANGED <<runStatus, runError>>
          ELSE /\ Catch(Err("LaunchError", 0, 0))
               /\ UNCHANGED files
  /\ UNCHANGED <<flow, stepIndex, interactionLog, evidenceIndex, consoleLog, exitCode>>

\* a navigation that hands over to the plan's steps before its evidence is
\* captured and its entry is logged
Navigate_StartsStepsFirst ==
  /\ pc = "navigate"
  /\ UNCHANGED auxVars
  /\ stepIndex' = 1
  /\ \E ok \in BOOLEAN :
       IF ok
       THEN /\ calls' = calls \o <<Call(1, "goto", 0)>>
            /\ pc' = "steps"
            /\ UNCHANGED <<runStatus, runError, files, evidenceIndex, consoleLog,
                           interactionLog>>
       ELSE /\ calls' = calls \o <<Call(1, "goto", 0)>>
            /\ Catch(Err("NavigationError", 0, 0))
            /\ UNCHANGED <<files, evidenceIndex, consoleLog, interactionLog>>
  /\ UNCHANGED <<flow, exitCode>>

\* step 001: page.goto, evidence, log entry
Navigate ==
  /\ pc = "navigate"
  /\ UNCHANGED auxVars
  /\ stepIndex' = 1
  /\ \E ok \in BOOLEAN, cap \in CaptureOutcomes(flow, 1, S_GEN, calls) :
       IF ok
       THEN LET ev == captureEvidence(files, 1, S_GEN, cap)
            IN /\ calls' = calls \o <<Call(1, "goto", 0)>> \o ev.calls
               /\ files' = ev.files
               /\ evidenceIndex' = Append(evidenceIndex, ev.rec)
               /\ consoleLog' = consoleLog \o ev.clog
               /\ interactionLog' = Append(interactionLog,
                     LogEntry(1, S_GEN, "goto", "success", NoError, NoNote))
               /\ pc' = "steps"
               /\ UNCHANGED <<runStatus, runError>>
       ELSE /\ calls' = calls \o <<Call(1, "goto", 0)>>
            /\ Catch(Err("NavigationError", 0, 0))
            /\ UNCHANGED <<files, evidenceIndex, consoleLog, interactionLog>>
  /\ UNCHANGED <<flow, exitCode>>

\* StepOutcome that records the error of a failed step and goes on with
\* the next step
StepOutcome_KeepsGoing(failed, idx, err) ==
  /\ pc' = "steps"
  /\ runStatus' = IF failed THEN "error" ELSE runStatus
  /\ runError' = IF failed THEN FailedAtStep(idx, err) ELSE runError

\* the end of a loop iteration: a failed step records the run error and
\* throws it to the catch clause; otherwise the loop goes on
StepOutcome(failed, idx, err) ==
  IF failed
  THEN Catch(FailedAtStep(idx, err))
  ELSE /\ pc' = "steps"
       /\ UNCHANGED <<runStatus, runError>>


\* a step loop in which a failing step throws straight away: no evidence is
\* captured and no entry is logged for it
ExecStep_ThrowsBeforeEvidence ==
  /\ pc = "steps"
  /\ UNCHANGED auxVars
  /\ stepIndex <= Len(flow.steps)
  /\ LET idx == stepIndex + 1
         s == flow.steps[idx - 1]
         aidRaw == canonicalAllegationId(s.allegation_id)
     IN \E env \in StepEnvs, cap \in CaptureOutcomes(flow, idx, s.allegation_id, calls) :
          LET r == executeStep(s, env, idx)
              ev == captureEvidence(files, idx, aidRaw, cap)
              failed == r.err.kind # "none"
          IN /\ stepIndex' = idx
             /\ calls' = IF failed THEN calls \o r.calls ELSE calls \o r.calls \o ev.calls
             /\ files' = IF failed THEN files ELSE ev.files
             /\ evidenceIndex' = IF failed THEN evidenceIndex
                                 ELSE Append(evidenceIndex, ev.rec)
             /\ consoleLog' = IF failed THEN consoleLog \o r.clog
                              ELSE consoleLog \o r.clog \o ev.clog
             /\ interactionLog' = IF failed THEN interactionLog \o r.ilog
                                  ELSE interactionLog \o r.ilog \o
                                       <<LogEntry(idx, aidRaw, s.type, "success", r.err, NoNote)>>
             /\ StepOutcome(failed, idx, r.err)
  /\ UNCHANGED <<flow, exitCode>>

\* one iteration of the loop over flow.steps
ExecStep ==
  /\ pc = "steps"
  /\ UNCHANGED auxVars
  /\ stepIndex <= Len(flow.steps)
  /\ LET idx == stepIndex + 1
         s == flow.steps[idx - 1]
         aidRaw == canonicalAllegationId(s.allegation_id)
     IN \E env \in StepEnvs, cap \in CaptureOutcomes(flow, idx, s.allegation_id, calls) :
          LET r == executeStep(s, env, idx)
              ev == captureEvidence(files, idx, aidRaw, cap)
              failed == r.err.kind # "none"
          IN /\ stepIndex' = idx
             /\ calls' = calls \o r.calls \o ev.calls
             /\ files' = ev.files
             /\ evidenceIndex' = Append(evidenceIndex, ev.rec)
             /\ consoleLog' = consoleLog \o r.clog \o ev.clog
             /\ interactionLog' = interactionLog \o r.ilog \o
                   <<LogEntry(idx, aidRaw, s.type,
                              IF failed THEN "error" ELSE "success", r.err, NoNote)>>
             /\ StepOutcome(failed, idx, r.err)
  /\ UNCHANGED <<flow, exitCode>>


\* goalMet that reads every expectation as "present"
goalMet_IgnoresExpectation(expectation, finalCount) == finalCount = 1

\* goalMet: present means exactly 1 match, absent means 0
goalMet(expectation, finalCount) ==
  \/ expectation = "present" /\ finalCount = 1
  \/ expectation = "absent" /\ finalCount = 0

\* GoalError without the ambiguity check
GoalError_NoAmbiguity(expectation, finalCount) ==
  IF ~goalMet(expectation, finalCount) THEN Err("GoalUnmet", finalCount, 0)
  ELSE NoError

\* the error thrown inside the goal check's try block: "Goal Failed: ...
\* matched n elements (ambiguity)", "Goal Failed: ... did not match
\* expectation", or none
GoalError(expectation, finalCount) ==
  IF finalCount > 1 THEN Err("GoalAmbiguity", finalCount, 0)
  ELSE IF ~goalMet(expectation, finalCount) THEN Err("GoalUnmet", finalCount, 0)
  ELSE NoError

\* after the loop: the optional goal verification, then runStatus = "success"
GoalCheck ==
  /\ pc = "steps"
  /\ UNCHANGED auxVars
  /\ stepIndex = Len(flow.steps) + 1
  /\ IF flow.goal = "none"
     THEN /\ runStatus' = "success"
          /\ pc' = "finally"
          /\ UNCHANGED <<runError, stepIndex, interactionLog, evidenceIndex,
                         consoleLog, files, calls>>
     ELSE IF flow.goal_text \notin {"absent", "null"}
     THEN /\ Catch(Err("PolicyViolation:goal_text", 0, 0))
          /\ UNCHANGED <<stepIndex, interactionLog, evidenceIndex,
                         consoleLog, files, calls>>
     ELSE LET idx == stepIndex + 1
          IN \E c1 \in 0..MaxCount, c2 \in 0..MaxCount, cap \in CaptureOutcomes(flow, idx, S_GEN, calls) :
               LET sample == stabilizedCount(c1, c2, idx, S_GEN)
                   finalCount == sample.final
                   goalErr == GoalError(flow.goal, finalCount)
                   ev == captureEvidence(files, idx, S_GEN, cap)
                   failed == goalErr.kind # "none"
               IN /\ stepIndex' = idx
                  /\ calls' = calls \o sample.calls \o ev.calls
                  /\ files' = ev.files
                  /\ evidenceIndex' = Append(evidenceIndex, ev.rec)
                  /\ consoleLog' = consoleLog \o sample.clog \o ev.clog
                  /\ interactionLog' = interactionLog \o sample.ilog \o
                        <<LogEntry("GOAL", S_GEN, "verify_goal",
                                   IF failed THEN "error" ELSE "success", goalErr, NoNote)>>
                  /\ IF failed
                     THEN Catch(goalErr)
                     ELSE /\ runStatus' = "success"
                          /\ pc' = "finally"
                          /\ UNCHANGED runError
  /\ UNCHANGED <<flow, exitCode>>

\* interactionLog.filter((e) => e && e.action === "policy_override")
policyOverrides(log) == SelectSeq(log, LAMBDA e : e.action = "policy_override")

\* a browser context exists once the launch sequence succeeded
ContextOpen == \E i \in 1..Len(calls) : calls[i].op = "goto"

\* the files of the finally block that precede the seal: status banner,
\* logs, policy overrides, console log, final metadata, narrative report
FinalWrites(fls, mode, status, err, ilog, eidx, clog) ==
  LET f1 == WriteFile(fls, P_Status, rawBytes("text", StatusBanner(mode, status, err)))
      f2 == WriteFile(f1, P_InteractionLog, writeJson("list", ilog))
      f3 == WriteFile(f2, P_EvidenceIndex, writeJson("list", eidx))
      f4 == WriteFile(f3, P_PolicyOverrides, writeJson("list", policyOverrides(ilog)))
      f5 == WriteFile(f4, P_Console, writeJson("list", clog))
      f6 == WriteFile(f5, P_RunMetadata, writeJson("object", RunMetadata(mode, status, err)))
  IN WriteFile(f6, P_ExecutionReport,
               rawBytes("text", [status |-> status, error |-> err,
                                 log |-> ilog, exhibits |-> eidx]))

\* ExitCode that reports every sealed run as a success
ExitCode_AlwaysZero(status) == 0

\* if (runStatus === "error") process.exit(1); otherwise main returns and
\* the process ends with code 0
ExitCode(status) == IF status = "error" THEN 1 ELSE 0

\* Finally with the seal taken before the banner, the logs and the report
\* are written
Finally_SealsFirst ==
  /\ pc = "finally"
  /\ UNCHANGED auxVars
  /\ calls' = IF ContextOpen THEN calls \o <<Call(0, "close", 0)>> ELSE calls
  /\ files' = FinalWrites(SealPacket(files), captureMode(flow), runStatus, runError,
                          interactionLog, evidenceIndex, consoleLog)
  /\ exitCode' = ExitCode(runStatus)
  /\ pc' = "done"
  /\ UNCHANGED <<flow, runStatus, runError, stepIndex, interactionLog,
                 evidenceIndex, consoleLog>>

\* the finally block: final metadata, teardown, banner, logs, report, seal,
\* and the end of the process (exit code 1 if runStatus is "error")
Finally ==
  /\ pc = "finally"
  /\ UNCHANGED auxVars
  /\ calls' = IF ContextOpen THEN calls \o <<Call(0, "close", 0)>> ELSE calls
  /\ files' = SealPacket(FinalWrites(files, captureMode(flow), runStatus, runError,
                                     interactionLog, evidenceIndex, consoleLog))
  /\ exitCode' = ExitCode(runStatus)
  /\ pc' = "done"
  /\ UNCHANGED <<flow, runStatus, runError, stepIndex, interactionLog,
                 evidenceIndex, consoleLog>>

Next ==
  \/ Load
  \/ Launch
  \/ Navigate
  \/ ExecStep
  \/ GoalCheck
  \/ Finally

Spec == Init /\ [][Next]_vars

\* every await of main returns (the provider's calls are bounded by their
\* timeouts) and the synchronous code between two awaits runs to its end
LiveSpec == Spec /\ WF_vars(Next)


(***************************************************************************)
(* Redaction of notes.                                                     *)
(***************************************************************************)
\* the most tokens a note is put together from
MaxNoteTokens == 3

\* Regular expressions are sequences of atoms: a literal character (matched
\* without case, flag i), \b, \s*, an optional character (x?) and an
\* optional group of alternatives ((a|b|c)?).
Lit(str) == SubSeq([i \in 1..Len(str) |-> [k |-> "lit", c |-> str[i]]], 1, Len(str))
WordBoundary == [k |-> "b"]
SpaceStar == [k |-> "s*"]
Opt(ch) == [k |-> "opt", c |-> ch]
OptGroup(alternatives) == [k |-> "optgroup", alts |-> alternatives]

Word(str) == <<WordBoundary>> \o Lit(str) \o <<WordBoundary>>

NOTE_BANNED_PATTERNS ==
  << Word(BannedWords.wcag),
     Word(BannedWords.ada),
     <<WordBoundary>> \o Lit(BannedWords.title) \o <<SpaceStar>> \o Lit(BannedWords.iii) \o <<WordBoundary>>,
     Word(BannedWords.compliant),
     <<WordBoundary>> \o Lit(BannedWords.non) \o <<Opt(45)>> \o Lit(BannedWords.compliant) \o <<WordBoundary>>,
     Word(BannedWords.violation),
     Word(BannedWords.violates),
     Word(BannedWords.inaccessible),
     Word(BannedWords.barrier),
     <<WordBoundary>> \o Lit(BannedWords.fail) \o <<OptGroup(<<BannedWords.s, BannedWords.ed, BannedWords.ure>>)>> \o <<WordBoundary>>,
     <<WordBoundary>> \o Lit(BannedWords.pass) \o <<OptGroup(<<BannedWords.ed, BannedWords.es>>)>> \o <<WordBoundary>> >>

\* \w
IsWordChar(c) == IsLower(c) \/ IsUpper(c) \/ IsDigit(c) \/ c = 95

\* \b before position i of str: exactly one of str[i-1], str[i] is a word
\* character
AtWordBoundary(str, i) ==
  (i > 1 /\ IsWordChar(str[i - 1])) # (i <= Len(str) /\ IsWordChar(str[i]))

\* the backtracking matcher: the position after a match of atoms that starts
\* at position i of str, or 0 if there is none
RECURSIVE MatchAtoms(_, _, _)
RECURSIVE MatchAlternatives(_, _, _, _, _)
MatchAlternatives(alts, j, rest, str, i) ==
  IF j > Len(alts) THEN MatchAtoms(rest, str, i)
  ELSE LET r == MatchAtoms(Lit(alts[j]) \o rest, str, i)
       IN IF r # 0 THEN r ELSE MatchAlternatives(alts, j + 1, rest, str, i)

MatchAtoms(atoms, str, i) ==
  IF atoms = <<>> THEN i
  ELSE LET a == Head(atoms)
           rest == Tail(atoms)
       IN CASE a.k = "lit" ->
                 IF i <= Len(str) /\ ToLowerChar(str[i]) = a.c
                 THEN MatchAtoms(rest, str, i + 1) ELSE 0
            [] a.k = "b" ->
                 IF AtWordBoundary(str, i) THEN MatchAtoms(rest, str, i) ELSE 0
            [] a.k = "opt" ->
                 IF i <= Len(str) /\ ToLowerChar(str[i]) = a.c
                 THEN LET r == MatchAtoms(rest, str, i + 1)
                      IN IF r # 0 THEN r ELSE MatchAtoms(rest, str, i)
                 ELSE MatchAtoms(rest, str, i)
            [] a.k = "s*" ->
                 IF i <= Len(str) /\ IsSpace(str[i])
                 THEN LET r == MatchAtoms(atoms, str, i + 1)
                      IN IF r # 0 THEN r ELSE MatchAtoms(rest, str, i)
                 ELSE MatchAtoms(rest, str, i)
            [] a.k = "optgroup" -> MatchAlternatives(a.alts, 1, rest, str, i)

\* re.test(s) with lastIndex 0: some position starts a match
RegExpTest(re, str) == \E i \in 1..Len(str) : MatchAtoms(re, str, i) # 0

RECURSIVE ReplaceFrom_FirstOnly(_, _, _)
RECURSIVE ReplaceFrom(_, _, _)
\* ReplaceFrom without flag g: only the first match is replaced
ReplaceFrom_FirstOnly(re, str, i) ==
  IF i > Len(str) THEN <<>>
  ELSE LET e == MatchAtoms(re, str, i)
       IN IF e # 0 THEN S_Redacted \o SubSeq(str, e, Len(str))
          ELSE <<str[i]>> \o ReplaceFrom_FirstOnly(re, str, i + 1)

\* s.replace(re, "[REDACTED]") with flag g, from position i on: every match,
\* left to right, none overlapping
ReplaceFrom(re, str, i) ==
  IF i > Len(str) THEN <<>>
  ELSE LET e == MatchAtoms(re, str, i)
       IN IF e # 0 THEN S_Redacted \o ReplaceFrom(re, str, e)
          ELSE <<str[i]>> \o ReplaceFrom(re, str, i + 1)

\* the loop over NOTE_BANNED_PATTERNS from pattern n on
RECURSIVE RedactFrom(_, _, _)
RedactFrom(n, str, redacted) ==
  IF n > Len(NOTE_BANNED_PATTERNS) THEN [s |-> str, redacted |-> redacted]
  ELSE IF RegExpTest(NOTE_BANNED_PATTERNS[n], str)
       THEN RedactFrom(n + 1, ReplaceFrom(NOTE_BANNED_PATTERNS[n], str, 1), TRUE)
       ELSE RedactFrom(n + 1, str, redacted)

\* !note
Falsy(v) == v.t = "null" \/ (v.t = "string" /\ v.s = <<>>)

RedactionEvent(original) ==
  [type |-> "compliance_redaction", original_length |-> Len(original)]

\* sanitizeNote(note, consoleLog): the value returned and the console log
sanitizeNote(v, clog) ==
  IF Falsy(v) THEN [s |-> JsNull, clog |-> clog]
  ELSE LET r == RedactFrom(1, v.s, FALSE)
       IN [s |-> JsString(r.s),
           clog |-> IF r.redacted THEN Append(clog, RedactionEvent(v.s)) ELSE clog]

\* the pieces notes are put together from
NoteTokens ==
  { BannedWords.pass, BannedWords.es, BannedWords.fail, BannedWords.ure, BannedWords.non, <<45>>, BannedWords.compliant, <<32>>,
    BannedWords.title, BannedWords.iii, <<65, 68, 65>>, <<120>>, S_Redacted }

RECURSIVE Concat(_)
Concat(seqs) == IF seqs = <<>> THEN <<>> ELSE Head(seqs) \o Concat(Tail(seqs))

Notes ==
  {JsNull} \cup
  { JsString(Concat(ts)) : ts \in UNION { [1..n -> NoteTokens] : n \in 0..MaxNoteTokens } }

NoteInit ==
  /\ MainOff
  /\ ExtraOff
  /\ StringifyOff
  /\ PacketOff
  /\ note \in Notes
  /\ sanitized = <<>>
  /\ noteLog = <<>>

\* one call of sanitizeNote on the note or on what the last call returned
Sanitize ==
  /\ Len(sanitized) < 2
  /\ LET r == sanitizeNote(note, noteLog)
     IN /\ sanitized' = Append(sanitized, [in |-> note, out |-> r.s,
                                           events |-> Len(r.clog) - Len(noteLog)])
        /\ note' = r.s
        /\ noteLog' = r.clog
  /\ UNCHANGED <<runVars, extraVars, stringifyVars, packetVars>>

NoteNext == Sanitize

NoteSpec == NoteInit /\ [][NoteNext]_vars


(***************************************************************************)
(* The notes main writes into the interaction log from the plan's free     *)
(* text: the note of a step and the goal description of the flow.          *)
(***************************************************************************)
\* most tokens in a free text of the plan
MaxPlanTokens == 1

S_GoalPrefix == <<71, 111, 97, 108, 58, 32>>

PlanTexts ==
  {JsNull} \cup
  { JsString(Concat(ts)) : ts \in UNION { [1..n -> NoteTokens] : n \in 0..MaxPlanTokens } }

\* the note of a plan step's log entry: sanitizeNote(s.note ? s.note : null)
StepNote(raw, clog) == sanitizeNote(IF Falsy(raw) THEN JsNull ELSE raw, clog)

\* the note of the goal entry: flow.goal ? `Goal: ${String(flow.goal)}` : null
GoalNote(goal) == IF Falsy(goal) THEN JsNull ELSE JsString(S_GoalPrefix \o goal.s)

PlanNoteInit ==
  /\ MainOff
  /\ NoteOff
  /\ StringifyOff
  /\ PacketOff
  /\ JournalOff
  /\ LegacyOff
  /\ planText \in [step_note : PlanTexts, goal : PlanTexts]
  /\ persisted = [log |-> <<>>, console |-> <<>>]

\* the log entry of the plan step
LogStep ==
  /\ Len(persisted.log) = 0
  /\ LET r == StepNote(planText.step_note, persisted.console)
     IN persisted' = [log |-> Append(persisted.log,
                                LogEntry(2, S_GEN, "wait_selector", "success", NoError, r.s)),
                      console |-> r.clog]
  /\ UNCHANGED <<runVars, noteVars, stringifyVars, packetVars, journalVars, legacyVars, planText>>

\* the log entry of the goal check
LogGoal ==
  /\ Len(persisted.log) = 1
  /\ persisted' = [persisted EXCEPT !.log =
        Append(@, LogEntry("GOAL", S_GEN, "verify_goal", "success", NoError,
                           GoalNote(planText.goal)))]
  /\ UNCHANGED <<runVars, noteVars, stringifyVars, packetVars, journalVars, legacyVars, planText>>

PlanNoteNext == LogStep \/ LogGoal

PlanNoteSpec == PlanNoteInit /\ [][PlanNoteNext]_vars


(***************************************************************************)
(* Canonical serialization.                                                *)
(***************************************************************************)
\* the most objects and arrays a value is made of
MaxNodes == 2

\* A value is a graph: heap[id] is an object (its properties in insertion
\* order) or an array, and a property or item is a number or a reference to
\* an object or array of the heap.
JsNumber(n) == [t |-> "number", v |-> n]
JsRef(id) == [t |-> "ref", id |-> id]
JsObject(props) == [t |-> "object", props |-> props]
JsArray(items) == [t |-> "array", items |-> items]

\* "a" and "B": localeCompare and the byte order disagree on them
ObjectKeys == {<<97>>, <<66>>}

\* Object.keys(v).sort((a, b) => a.localeCompare(b)): a stable sort
RECURSIVE InsertKey(_, _)
InsertKey(sorted, p) ==
  IF sorted = <<>> THEN <<p>>
  ELSE IF localeCompare(p.key, sorted[1].key) < 0 THEN <<p>> \o sorted
       ELSE <<sorted[1]>> \o InsertKey(Tail(sorted), p)

RECURSIVE SortKeys(_, _)
SortKeys(props, n) ==
  IF n = 0 THEN <<>> ELSE InsertKey(SortKeys(props, n - 1), props[n])

\* sorter(v) with the WeakSet seen: whether it threw, what it returned and
\* the set afterwards
RECURSIVE sorter(_, _, _)
RECURSIVE sorterEach(_, _, _, _)
sorterEach(heap, vals, i, acc) ==
  IF i > Len(vals) \/ acc.threw THEN acc
  ELSE LET r == sorter(heap, vals[i], acc.seen)
       IN sorterEach(heap, vals, i + 1,
                     [threw |-> r.threw, outs |-> Append(acc.outs, r.out), seen |-> r.seen])

sorter(heap, v, seen) ==
  IF v.t # "ref" THEN [threw |-> FALSE, out |-> v, seen |-> seen]
  ELSE IF v.id \in seen THEN [threw |-> TRUE, out |-> JsNull, seen |-> seen]
  ELSE LET node == heap[v.id]
           props == IF node.t = "object" THEN SortKeys(node.props, Len(node.props)) ELSE <<>>
           vals == IF node.t = "array" THEN node.items
                   ELSE SubSeq([i \in 1..Len(props) |-> props[i].val], 1, Len(props))
           r == sorterEach(heap, vals, 1,
                           [threw |-> FALSE, outs |-> <<>>, seen |-> seen \cup {v.id}])
       IN [threw |-> r.threw,
           out |-> IF r.threw THEN JsNull
                   ELSE IF node.t = "array" THEN JsArray(r.outs)
                   ELSE JsObject(SubSeq([i \in 1..Len(props) |->
                                           [key |-> props[i].key, val |-> r.outs[i]]],
                                        1, Len(props))),
           seen |-> r.seen]

\* stableStringify that returns the string "null" where sorter throws
stableStringifyGraph_SwallowsError(val) ==
  LET r == sorter(val.heap, val.root, {})
  IN [threw |-> "none", str |-> writeJson("value", r.out)]

\* stableStringify(value, 2) of a graph: the error thrown, or the string
\* JSON.stringify(sorter(value), null, 2) + "\n"
stableStringifyGraph(val) ==
  LET r == sorter(val.heap, val.root, {})
  IN IF r.threw THEN [threw |-> "Cyclic reference detected", str |-> JsNull]
     ELSE [threw |-> "none", str |-> writeJson("value", r.out)]

\* the values of up to MaxNodes objects and arrays, rooted at the first
PropsOrItems(n) == {JsNumber(0), JsNumber(1)} \cup { JsRef(id) : id \in 1..n }

Nodes(n) ==
  LET lens == 0..Cardinality(ObjectKeys)
  IN { JsArray(items) : items \in UNION { [1..m -> PropsOrItems(n)] : m \in lens } }
     \cup
     { JsObject(props) :
         props \in { ps \in UNION { [1..m -> [key : ObjectKeys, val : PropsOrItems(n)]] : m \in lens } :
                       \A i, j \in 1..Len(ps) : ps[i].key = ps[j].key => i = j } }

Values ==
  UNION { { [heap |-> h, root |-> JsRef(1)] : h \in [1..n -> Nodes(n)] } : n \in 1..MaxNodes }

StringifyInit ==
  /\ MainOff
  /\ ExtraOff
  /\ NoteOff
  /\ PacketOff
  /\ value \in Values
  /\ serialized = <<>>

\* one call of stableStringify on the value
Stringify ==
  /\ Len(serialized) < 2
  /\ serialized' = Append(serialized, [of |-> value, result |-> stableStringifyGraph(value)])
  /\ UNCHANGED <<runVars, extraVars, noteVars, packetVars, value>>

\* the same value built with the keys of one object inserted in another
\* order
Reorder ==
  /\ Len(serialized) < 2
  /\ \E id \in DOMAIN value.heap :
       /\ value.heap[id].t = "object"
       /\ \E f \in Permutations(1..Len(value.heap[id].props)) :
            LET old == value.heap[id].props
                new == SubSeq([i \in 1..Len(old) |-> old[f[i]]], 1, Len(old))
            IN /\ new # old
               /\ value' = [value EXCEPT !.heap[id].props = new]
  /\ UNCHANGED <<runVars, extraVars, noteVars, packetVars, serialized>>

StringifyNext == Stringify \/ Reorder

StringifySpec == StringifyInit /\ [][StringifyNext]_vars


(***************************************************************************)
(* The seal of an output tree, and the verifiers.                          *)
(***************************************************************************)
\* the instants at which nowIso() is read when a seal is made
Clock == {"t1", "t2"}

\* the seal of the tree fls, written into directory dir of it
SealPacketAt(fls, dir, now) ==
  CallByValue(LAMBDA manifestStr :
                WriteFile(WriteFile(fls, dir \o S_Manifest, manifestStr),
                          dir \o S_PacketHash, rawBytes("hash", PacketHashFile(manifestStr))),
              ManifestStr(BuildManifestAt(fls, now)))

\* tools/verify_packet.ps1, the loop over $manifest.files from entry i on
RECURSIVE CheckListed(_, _, _)
CheckListed(dir, listed, i) ==
  IF i > Len(listed) THEN "PASS: packet verified"
  ELSE IF listed[i].path \notin DOMAIN dir THEN "Missing file"
  ELSE IF sha256Bytes(dir[listed[i].path]) # listed[i].sha256 THEN "Hash mismatch"
  ELSE CheckListed(dir, listed, i + 1)

\* tools/verify_packet.ps1 on the directory dir: what it throws or prints
verify_packet(dir) ==
  IF S_Manifest \notin DOMAIN dir THEN "Missing manifest.json"
  ELSE IF S_PacketHash \notin DOMAIN dir THEN "Missing packet_hash.txt"
  ELSE IF sha256Bytes(dir[S_Manifest]) # dir[S_PacketHash].value[1]
  THEN "Packet hash mismatch"
  ELSE CheckListed(dir, dir[S_Manifest].value.files, 1)

\* tools/af_verify.ps1, Verify-EvidencePacket: it reads $manifest.artifacts
VerifyEvidencePacket(dir) ==
  IF S_Manifest \notin DOMAIN dir THEN "Missing manifest.json in run directory"
  ELSE IF "artifacts" \notin DOMAIN dir[S_Manifest].value
  THEN "Manifest has no artifacts array"
  ELSE CheckListed(dir, dir[S_Manifest].value.artifacts, 1)

\* small output trees: every run has README and run_metadata.json
TreeContents == {rawBytes("text", "x"), rawBytes("text", "y")}

OptionalPaths == {P_Status, ScreenshotPath(S_GEN, 1), ScreenshotPath(S_gen, 1)}

OutputTrees ==
  { WriteFile(WriteFile(t, P_README, rawBytes("text", "README")), P_RunMetadata,
              writeJson("object", RunMetadata("passive", "success", NoError))) :
      t \in UNION { [ps -> TreeContents] : ps \in SUBSET OptionalPaths } }

PacketInit ==
  /\ MainOff
  /\ ExtraOff
  /\ NoteOff
  /\ StringifyOff
  /\ outputTree \in OutputTrees
  /\ packets = <<>>
  /\ \E now \in Clock : runDir = SealPacketAt(outputTree, <<>>, now)
  /\ alteration = "none"
  /\ verdict = [verify_packet |-> "none", af_verify |-> "none"]

\* a run seals its output tree as main does
Seal ==
  /\ Len(packets) < 2
  /\ \E now \in Clock :
       packets' = Append(packets, SealPacketAt(outputTree, S_VerificationDir, now))
  /\ UNCHANGED <<runVars, extraVars, noteVars, stringifyVars, outputTree, runDir, alteration, verdict>>

\* the files the manifest of dir lists
ListedPaths(dir) ==
  { dir[S_Manifest].value.files[i].path : i \in 1..Len(dir[S_Manifest].value.files) }

\* one alteration of the sealed directory
Alter ==
  /\ alteration = "none"
  /\ verdict.verify_packet = "none"
  /\ \/ /\ alteration' = "extra file"
        /\ \E p \in (OptionalPaths \cup {P_EvidenceIndex}) \ DOMAIN runDir, c \in TreeContents :
             runDir' = WriteFile(runDir, p, c)
     \/ /\ alteration' = "missing file"
        /\ \E p \in ListedPaths(runDir) :
             runDir' = [q \in DOMAIN runDir \ {p} |-> runDir[q]]
     \/ /\ alteration' = "altered content"
        /\ \E p \in ListedPaths(runDir), c \in TreeContents :
             /\ c # runDir[p]
             /\ runDir' = WriteFile(runDir, p, c)
     \/ /\ alteration' = "reordered manifest"
        /\ \E i \in 1..(Len(runDir[S_Manifest].value.files) - 1) :
             LET listed == runDir[S_Manifest].value.files
                 swapped == [listed EXCEPT ![i] = listed[i + 1], ![i + 1] = listed[i]]
             IN runDir' = WriteFile(runDir, S_Manifest,
                                    [runDir[S_Manifest] EXCEPT !.value.files = swapped])
  /\ UNCHANGED <<runVars, extraVars, noteVars, stringifyVars, outputTree, packets, verdict>>

\* both verifiers are run on the directory
Verify ==
  /\ verdict.verify_packet = "none"
  /\ verdict' = [verify_packet |-> verify_packet(runDir),
                 af_verify |-> VerifyEvidencePacket(runDir)]
  /\ UNCHANGED <<runVars, extraVars, noteVars, stringifyVars, outputTree, packets, runDir, alteration>>

PacketNext == Seal \/ Alter \/ Verify

PacketSpec == PacketInit /\ [][PacketNext]_vars


(***************************************************************************)
(* The hash-chained journal of SKUAEngine.                                 *)
(***************************************************************************)
\* most entries one engine appends
MaxEntries == 2

JournalKeys ==
  [timestamp |-> <<116, 105, 109, 101, 115, 116, 97, 109, 112>>,
   selector |-> <<115, 101, 108, 101, 99, 116, 111, 114>>,
   interaction |-> <<105, 110, 116, 101, 114, 97, 99, 116, 105, 111, 110>>,
   ax_tree |-> <<97, 120, 95, 116, 114, 101, 101>>,
   styles |-> <<115, 116, 121, 108, 101, 115>>,
   role |-> <<114, 111, 108, 101>>,
   name |-> <<110, 97, 109, 101>>,
   checked |-> <<99, 104, 101, 99, 107, 101, 100>>,
   color |-> <<99, 111, 108, 111, 114>>,
   children |-> <<99, 104, 105, 108, 100, 114, 101, 110>>]

\* the keys _redactRecursive blanks, among the keys of the model
Denylist == {JournalKeys.name}

\* the value of key k in the object v, or "undefined"
GetProp(v, k) ==
  LET hits == SelectSeq(v.props, LAMBDA p : p.key = k)
  IN IF hits = <<>> THEN [t |-> "undefined"] ELSE hits[1].val

\* _redactRecursive(node): the node afterwards
RECURSIVE redactRecursive(_)
redactRecursive(node) ==
  IF node.t = "array"
  THEN JsArray(SubSeq([i \in 1..Len(node.items) |-> redactRecursive(node.items[i])],
                      1, Len(node.items)))
  ELSE IF node.t = "object"
  THEN JsObject(SubSeq([i \in 1..Len(node.props) |->
                          [key |-> node.props[i].key,
                           val |-> IF node.props[i].key \in Denylist
                                   THEN JsString("[REDACTED_FOR_MINIMIZATION]")
                                   ELSE redactRecursive(node.props[i].val)]],
                       1, Len(node.props)))
  ELSE node

\* Array.prototype.sort() without a comparator, on strings: by code unit
RECURSIVE InsertString(_, _)
InsertString(sorted, k) ==
  IF sorted = <<>> THEN <<k>>
  ELSE IF ByteLess(k, sorted[1]) THEN <<k>> \o sorted
       ELSE <<sorted[1]>> \o InsertString(Tail(sorted), k)

RECURSIVE SortStrings(_, _)
SortStrings(keys, n) ==
  IF n = 0 THEN <<>> ELSE InsertString(SortStrings(keys, n - 1), keys[n])

\* Object.keys(v)
Keys(v) == SubSeq([i \in 1..Len(v.props) |-> v.props[i].key], 1, Len(v.props))

\* JSON.stringify(v, allow) with an array for a replacer: of every object, at
\* every depth, only the properties named in allow are written, in allow's
\* order; the items of an array are all written
RECURSIVE SerializeAllowed(_, _)
SerializeAllowed(v, allow) ==
  IF v.t = "array"
  THEN JsArray(SubSeq([i \in 1..Len(v.items) |-> SerializeAllowed(v.items[i], allow)],
                      1, Len(v.items)))
  ELSE IF v.t = "object"
  THEN LET written == SelectSeq(allow, LAMBDA k : GetProp(v, k).t # "undefined")
       IN JsObject(SubSeq([i \in 1..Len(written) |->
                             [key |-> written[i],
                              val |-> SerializeAllowed(GetProp(v, written[i]), allow)]],
                          1, Len(written)))
  ELSE v

\* JSON.stringify(telemetry, Object.keys(telemetry).sort())
canonical(telemetry) ==
  [fmt |-> "JSON.stringify",
   value |-> SerializeAllowed(telemetry, SortStrings(Keys(telemetry), Len(Keys(telemetry))))]

\* crypto.createHash('sha256').update(prevHash + canonical).digest('hex')
ChainHash(prevHash, canon) == sha256Bytes(<<prevHash, canon>>)

\* the seed of a chain: manifest.hash || '00000000000000000000000000000000'
Seed(manifest) ==
  [alg |-> "declared", digest |-> "hex",
   of |-> <<IF manifest.hash = "" THEN "00000000000000000000000000000000"
            ELSE manifest.hash>>]

\* the telemetry of one capture
Telemetry(now, selector, interaction, ax, styles) ==
  JsObject(<<[key |-> JournalKeys.timestamp, val |-> JsString(now)],
             [key |-> JournalKeys.selector, val |-> JsString(selector)],
             [key |-> JournalKeys.interaction, val |-> JsString(interaction)],
             [key |-> JournalKeys.ax_tree, val |-> redactRecursive(ax)],
             [key |-> JournalKeys.styles, val |-> styles]>>)

\* an entry that is chained to the declared seed, whatever the head is
Entry_ChainedToSeed(manifest, prevHash, telemetry) ==
  [prev_hash |-> Seed(manifest), data |-> telemetry,
   hash |-> ChainHash(Seed(manifest), canonical(telemetry))]

\* the entry captureStep builds
Entry(manifest, prevHash, telemetry) ==
  [prev_hash |-> prevHash, data |-> telemetry,
   hash |-> ChainHash(prevHash, canonical(telemetry))]

\* what the page gives one capture: the accessibility snapshot of the node
\* and its computed styles
AxNode(role, name) ==
  JsObject(<<[key |-> JournalKeys.role, val |-> JsString(role)],
             [key |-> JournalKeys.name, val |-> JsString(name)]>>)

Styles(color) == JsObject(<<[key |-> JournalKeys.color, val |-> JsString(color)]>>)

Observations ==
  { [ax |-> AxNode("button", "Save"), styles |-> Styles("red")],
    [ax |-> AxNode("link", "Save"), styles |-> Styles("red")],
    [ax |-> AxNode("button", "Save"), styles |-> Styles("blue")],
    [ax |-> JsObject(<<[key |-> JournalKeys.role, val |-> JsString("group")],
                       [key |-> JournalKeys.children,
                        val |-> JsArray(<<AxNode("button", "Save")>>)]>>),
     styles |-> Styles("red")] }

\* the manifests an engine is constructed with
Manifests ==
  [hash : {"", "5eed"}, mode : {"FULL_CAPTURE", "DRY_RUN"}, allowed_selectors : {{"#a"}}]

EngineIds == {1, 2}

\* new Date().toISOString() at an engine's capture after n entries: the clock
\* moves on between captures
Tick(n) == IF n = 0 THEN "t1" ELSE "t2"

\* new SKUAEngine(manifest)
NewEngine(manifest) ==
  [manifest |-> manifest, prevHash |-> Seed(manifest),
   outputDir |-> manifest.mode = "FULL_CAPTURE",
   journal |-> <<>>, chain |-> <<>>, returned |-> "none", exited |-> FALSE]

JournalInit ==
  /\ MainOff
  /\ NoteOff
  /\ StringifyOff
  /\ PacketOff
  /\ PlanNoteOff
  /\ LegacyOff
  /\ \E m \in Manifests : engines = [e \in EngineIds |-> NewEngine(m)]
  /\ presented = [kind |-> "none", of |-> 0, journal |-> <<>>]
  /\ chainVerdict = "none"

\* one line of journal.ndjson: JSON.stringify(entry) + '\n'
JournalLine(entry) == [fmt |-> "JSON.stringify+LF", value |-> entry]

\* engine e runs captureStep(selector): the process exits on a selector that
\* is not allowed, null is returned when no node matches, and otherwise an
\* entry is chained, appended to the journal (if there is an output
\* directory) and returned; chain keeps the entries returned
CaptureStep ==
  /\ presented.kind = "none"
  /\ \E e \in EngineIds, selector \in {"#a", "#x"}, found \in BOOLEAN,
        seen \in Observations :
       LET eng == engines[e]
           now == Tick(Len(eng.chain))
       IN /\ ~eng.exited
          /\ Len(eng.chain) < MaxEntries
          /\ IF selector \notin eng.manifest.allowed_selectors
             THEN engines' = [engines EXCEPT ![e].exited = TRUE]
             ELSE IF ~found
             THEN engines' = [engines EXCEPT ![e].returned = "null"]
             ELSE LET entry == Entry(eng.manifest, eng.prevHash,
                                     Telemetry(now, selector, "PASSIVE", seen.ax, seen.styles))
                  IN engines' = [engines EXCEPT
                        ![e].prevHash = entry.hash,
                        ![e].journal = IF eng.outputDir
                                       THEN Append(@, JournalLine(entry)) ELSE @,
                        ![e].chain = Append(@, entry),
                        ![e].returned = "entry"]
  /\ UNCHANGED <<runVars, noteVars, stringifyVars, packetVars, planNoteVars, legacyVars,
                 presented, chainVerdict>>

\* the entries of a journal file, parsed line by line
ParseJournal(lines) == SubSeq([i \in 1..Len(lines) |-> lines[i].value], 1, Len(lines))

\* a verifier that recomputes the chain of a journal from the declared seed
RecomputeChain(seed, jrn) ==
  IF \A i \in 1..Len(jrn) :
       /\ jrn[i].prev_hash = (IF i = 1 THEN seed ELSE jrn[i - 1].hash)
       /\ jrn[i].hash = ChainHash(jrn[i].prev_hash, canonical(jrn[i].data))
  THEN "chain verified" ELSE "chain broken"

\* the journal of an engine is handed to a verifier: as it is, with two
\* entries swapped, or with entries cut from its end or from its start
Present ==
  /\ presented.kind = "none"
  /\ \E e \in EngineIds :
       LET jrn == ParseJournal(engines[e].journal)
           n == Len(jrn)
       IN /\ n >= 1
          /\ \/ presented' = [kind |-> "untouched", of |-> e, journal |-> jrn]
             \/ /\ n >= 2
                /\ \E i \in 1..(n - 1) :
                     presented' = [kind |-> "reordered", of |-> e,
                                   journal |-> [jrn EXCEPT ![i] = jrn[i + 1],
                                                           ![i + 1] = jrn[i]]]
             \/ \E k \in 1..(n - 1) :
                  presented' = [kind |-> "truncated at the end", of |-> e,
                                journal |-> SubSeq(jrn, 1, n - k)]
             \/ \E k \in 1..(n - 1) :
                  presented' = [kind |-> "truncated at the start", of |-> e,
                                journal |-> SubSeq(jrn, k + 1, n)]
  /\ UNCHANGED <<runVars, noteVars, stringifyVars, packetVars, planNoteVars, legacyVars,
                 engines, chainVerdict>>

VerifyChain ==
  /\ presented.kind # "none"
  /\ chainVerdict = "none"
  /\ chainVerdict' = RecomputeChain(Seed(engines[presented.of].manifest), presented.journal)
  /\ UNCHANGED <<runVars, noteVars, stringifyVars, packetVars, planNoteVars, legacyVars,
                 engines, presented>>

JournalNext == CaptureStep \/ Present \/ VerifyChain

JournalSpec == JournalInit /\ [][JournalNext]_vars


(***************************************************************************)
(* The legacy executor, ect.backup.js: the end of main, from the write of  *)
(* the logs to the flush of the journal.  Its run directory holds the      *)
(* packet at its root, the layout tools/verify_packet.ps1 reads.           *)
(***************************************************************************)
S_Journal == <<106, 111, 117, 114, 110, 97, 108, 46, 110, 100, 106, 115, 111, 110>>
S_NetworkHar == <<110, 101, 116, 119, 111, 114, 107, 46, 104, 97, 114>>
S_TraceZip == <<116, 114, 97, 99, 101, 46, 122, 105, 112>>
S_VideoWebm == <<118, 105, 100, 101, 111, 46, 119, 101, 98, 109>>
\* screenshots/screenshot_f_step_001.png, the screenshot of step 1 of flow f
S_LegacyShot == <<115, 99, 114, 101, 101, 110, 115, 104, 111, 116, 115, 47,
                  115, 99, 114, 101, 101, 110, 115, 104, 111, 116, 95, 102, 95,
                  115, 116, 101, 112, 95, 48, 48, 49, 46, 112, 110, 103>>

\* packet_hash: null
NoPacketHash == [alg |-> "none", digest |-> "hex", of |-> <<>>]

\* the runMetadata object, in the fields the end of main assigns
LegacyRunMetadata(status, error, videoRel, packetHash) ==
  [run_id |-> "runId", status |-> status, error |-> error,
   artifacts |-> [video_webm |-> videoRel], packet_hash |-> packetHash]

\* emit(event): one more line at the end of journal.ndjson
emit(dir, event) ==
  WriteFile(dir, S_Journal, rawBytes("list", Append(dir[S_Journal].value, event)))

\* runError || message
OrError(current, message) == IF current = "null" THEN message ELSE current

\* what a run left behind when its browser closed: its outcome, whether one
\* video and the HAR were saved, the screenshot of its step, and the number
\* of files the manifest walk hashes before it throws (-1: it does not)
LegacyRuns ==
  [runStatus : {"success", "error"}, video : BOOLEAN, har : BOOLEAN,
   shot : { c \in SUBSET TreeContents : Cardinality(c) <= 1 },
   walkStops : {-1, 0, 1}]

\* the run directory when the evidence index has been hashed
LegacyDir(run) ==
  LET base == (S_Journal :> rawBytes("list", <<[event |-> "run.start"]>>))
              @@ (S_RunMetadata :> writeJson("object",
                    LegacyRunMetadata("running", "null", "null", NoPacketHash)))
              @@ (S_Console :> writeJson("list", <<>>))
              @@ (S_TraceZip :> rawBytes("zip", "trace"))
      withHar == IF run.har THEN WriteFile(base, S_NetworkHar, rawBytes("har", "har"))
                 ELSE base
      withVideo == IF run.video THEN WriteFile(withHar, S_VideoWebm, rawBytes("webm", "video"))
                   ELSE withHar
  IN IF run.shot = {} THEN withVideo
     ELSE WriteFile(withVideo, S_LegacyShot, CHOOSE c \in run.shot : TRUE)

LegacyInit ==
  /\ MainOff
  /\ NoteOff
  /\ StringifyOff
  /\ PacketOff
  /\ PlanNoteOff
  /\ JournalOff
  /\ \E run \in LegacyRuns :
       legacy = [pc |-> "hashed", dir |-> LegacyDir(run),
                 runStatus |-> run.runStatus,
                 runError |-> IF run.runStatus = "error" THEN "step failed" ELSE "null",
                 videoRel |-> IF run.video THEN "video.webm" ELSE "null",
                 walkStops |-> run.walkStops,
                 packetHash |-> NoPacketHash, verdict |-> "none", exitCode |-> 0]

\* the interaction log, the evidence index and the metadata are written
WriteLogs ==
  /\ legacy.pc = "hashed"
  /\ legacy' = [legacy EXCEPT
       !.pc = "logged",
       !.dir = WriteFile(WriteFile(WriteFile(@,
                 S_InteractionLog, writeJson("list", <<"goto">>)),
                 S_EvidenceIndex, writeJson("list", <<"step 1">>)),
                 S_RunMetadata, writeJson("object",
                   LegacyRunMetadata(legacy.runStatus, legacy.runError,
                                     legacy.videoRel, NoPacketHash)))]
  /\ UNCHANGED <<runVars, noteVars, stringifyVars, packetVars, planNoteVars, journalVars>>

\* walk(runDir): every file but the seal outputs; video_temp/ is empty or
\* gone by now
LegacyWalk(dir) ==
  CallByValue(LAMBDA tree :
                walkPaths(tree, DOMAIN tree \ {S_Manifest, S_PacketHash}),
              dir)

\* the manifest is built, sorted and written, then packet_hash.txt; a walk
\* that throws keeps the entries pushed so far and rewrites the metadata
BuildLegacyManifest ==
  /\ legacy.pc = "logged"
  /\ LET walked == LegacyWalk(legacy.dir)
         threw == legacy.walkStops >= 0 /\ legacy.walkStops < Len(walked)
         pushed == IF threw THEN SubSeq(walked, 1, legacy.walkStops) ELSE walked
         status == IF threw THEN "error" ELSE legacy.runStatus
         error == IF threw THEN OrError(legacy.runError, "walk failed") ELSE legacy.runError
         afterWalk == IF threw
                      THEN WriteFile(legacy.dir, S_RunMetadata, writeJson("object",
                             LegacyRunMetadata(status, error, legacy.videoRel, NoPacketHash)))
                      ELSE legacy.dir
         manifestStr == ManifestStr([run_id |-> "runId", created_at_utc |-> "nowIso",
                                     files |-> sortFiles(pushed)])
     IN legacy' = [legacy EXCEPT
          !.pc = "sealed",
          !.runStatus = status,
          !.runError = error,
          !.packetHash = sha256Bytes(manifestStr),
          !.dir = WriteFile(WriteFile(afterWalk, S_Manifest, manifestStr),
                            S_PacketHash, rawBytes("hash", PacketHashFile(manifestStr)))]
  /\ UNCHANGED <<runVars, noteVars, stringifyVars, packetVars, planNoteVars, journalVars>>

\* "Final metadata write links packet hash"
LinkPacketHash ==
  /\ legacy.pc = "sealed"
  /\ legacy' = [legacy EXCEPT
       !.pc = "linked",
       !.dir = WriteFile(@, S_RunMetadata, writeJson("object",
                 LegacyRunMetadata(legacy.runStatus, legacy.runError,
                                   legacy.videoRel, legacy.packetHash)))]
  /\ UNCHANGED <<runVars, noteVars, stringifyVars, packetVars, planNoteVars, journalVars>>

\* the required artifact assertions: the first missing one is thrown
AssertArtifacts ==
  /\ legacy.pc = "linked"
  /\ LET missing == \/ S_NetworkHar \notin DOMAIN legacy.dir
                    \/ legacy.videoRel = "null"
                    \/ S_VideoWebm \notin DOMAIN legacy.dir
         error == OrError(legacy.runError, "REQUIRED ARTIFACT MISSING")
     IN legacy' = IF missing
                  THEN [legacy EXCEPT
                          !.pc = "asserted",
                          !.runStatus = "error",
                          !.runError = error,
                          !.dir = emit(WriteFile(@, S_RunMetadata, writeJson("object",
                                         LegacyRunMetadata("error", error, legacy.videoRel,
                                                           legacy.packetHash))),
                                       [event |-> "artifact.assertion_failed",
                                        error |-> error])]
                  ELSE [legacy EXCEPT !.pc = "asserted"]
  /\ UNCHANGED <<runVars, noteVars, stringifyVars, packetVars, planNoteVars, journalVars>>

\* the end events are emitted, the journal is flushed, the exit code is set
EmitEnd ==
  /\ legacy.pc = "asserted"
  /\ legacy' = [legacy EXCEPT
       !.pc = "exited",
       !.exitCode = IF legacy.runStatus = "error" THEN 1 ELSE 0,
       !.dir = emit(emit(@, [event |-> "packet.sealed", manifest |-> "manifest.json",
                             packet_hash |-> legacy.packetHash]),
                    [event |-> "run.end", status |-> legacy.runStatus,
                     error |-> legacy.runError])]
  /\ UNCHANGED <<runVars, noteVars, stringifyVars, packetVars, planNoteVars, journalVars>>

\* tools/verify_packet.ps1 is run on the run directory as the process left it
VerifyLegacy ==
  /\ legacy.pc = "exited"
  /\ legacy.verdict = "none"
  /\ legacy' = [legacy EXCEPT !.verdict = verify_packet(legacy.dir)]
  /\ UNCHANGED <<runVars, noteVars, stringifyVars, packetVars, planNoteVars, journalVars>>

LegacyNext ==
  WriteLogs \/ BuildLegacyManifest \/ LinkPacketHash \/ AssertArtifacts
    \/ EmitEnd \/ VerifyLegacy

LegacySpec == LegacyInit /\ [][LegacyNext]_vars


(***************************************************************************)
(* Properties.                                                             *)
(***************************************************************************)
\* the packet is sealed: manifest.json and packet_hash.txt are written
Sealed == P_Manifest \in DOMAIN files /\ P_PacketHash \in DOMAIN files

\* the manifest object persisted in manifest.json
SealedManifest == files[P_Manifest].value

\* a log entry that records the outcome of a plan step
IsPlanStepEntry(e) ==
  e.action \notin {"goto", "verify_goal", "instability_log", "policy_override"}

\* the log entries of plan step k (logged at step_index k + 1)
StepEntries(k) ==
  SelectSeq(interactionLog, LAMBDA e : IsPlanStepEntry(e) /\ e.step_index = k + 1)

Executed(k) == StepEntries(k) # <<>>

\* the provider calls made during plan step k, by operation
CallsAt(k, ops) ==
  SelectSeq(calls, LAMBDA c : c.step_index = k + 1 /\ c.op \in ops)

\* C1: every run that passes load-time validation eventually runs the final
\* phase, which writes manifest.json and packet_hash.txt, whether the run
\* ends with status error or success.
C1_SealAlwaysRuns == (pc = "launch") ~> (pc = "done" /\ Sealed)

C1_Witness ==
  /\ pc = "done"
  /\ Sealed
  /\ runStatus = "error"
  /\ runError.kind = "LaunchError"

UsesStrictResolution(s) ==
  /\ s.selector
  /\ s.goal_text \in {"absent", "null"}
  /\ \/ s.type \in {"click_selector", "type_selector", "fill"}
        /\ s.allow_multiple_matches = "absent"
     \/ s.type = "wait_selector" /\ s.allow_multiple_matches # "true"

\* C3: strict resolution decides on the final count sample only: 1 yields
\* the target (the step goes on to its action), 0 fails as not found, more
\* than 1 fails with an ambiguity error carrying the count, and no action is
\* issued on any of the matches.
C3_StrictDecidesOnFinalCount ==
  \A k \in 1..Len(flow.steps) :
    (UsesStrictResolution(flow.steps[k]) /\ Executed(k)) =>
      LET e == StepEntries(k)[1]
          counts == CallsAt(k, {"count"})
          final == counts[Len(counts)].res
          acts == CallsAt(k, {"click", "fill", "waitFor"})
      IN /\ Len(counts) = 2
         /\ final = 1 => (acts # <<>> /\ e.error_message.kind \in {"none", "ActionError"})
         /\ final = 0 => (acts = <<>> /\ e.result = "error"
                          /\ e.error_message = Err("NotFound", 0, 0))
         /\ final > 1 => (acts = <<>> /\ e.result = "error"
                          /\ e.error_message = Err("Ambiguity", final, 0))

C3_Witness ==
  \E k \in 1..Len(flow.steps) :
    /\ flow.steps[k].type = "click_selector"
    /\ Executed(k)
    /\ StepEntries(k)[1].error_message = Err("Ambiguity", 2, 0)
    /\ CallsAt(k, {"count"})[1].res = 1

\* C4: once a plan step fails the run is terminal with status error: the
\* failing step's entry is the last entry of the interaction log (no later
\* step, no goal check) and no provider call is made for a later step.
C4_FailFast ==
  \A i \in 1..Len(interactionLog) :
    LET e == interactionLog[i]
    IN (IsPlanStepEntry(e) /\ e.result = "error") =>
         /\ runStatus = "error"
         /\ pc \in {"finally", "done"}
         /\ i = Len(interactionLog)
         /\ stepIndex = e.step_index
         /\ \A j \in 1..Len(calls) : calls[j].step_index <= e.step_index

C4_Witness ==
  /\ pc = "done"
  /\ Len(flow.steps) = 2
  /\ Executed(1)
  /\ StepEntries(1)[1].result = "error"
  /\ flow.goal # "none"

C6_ManifestByteOrdered ==
  Sealed =>
    \A i \in 1..(Len(SealedManifest.files) - 1) :
      ByteLess(SealedManifest.files[i].path, SealedManifest.files[i + 1].path)

\* C7: in passive mode a plan with a step type outside the allow-set is
\* rejected at load time, with a non-zero exit code and before any browser
\* launch or navigation, so a passive run issues no click, fill or key press.
C7_PassiveGate ==
  captureMode(flow) = "passive" =>
    /\ (\E k \in 1..Len(flow.steps) :
          flow.steps[k].type \notin
            {"wait_selector", "scroll", "assert_text_present", "assert_url_contains"})
         => /\ calls = <<>>
            /\ pc \in {"load", "done"}
            /\ pc = "done" => (exitCode = 1 /\ files = <<>>)
    /\ \A j \in 1..Len(calls) : calls[j].op \notin {"click", "fill", "keyboard.press"}

C7_Witness ==
  /\ captureMode(flow) = "passive"
  /\ flow.goal_text = "absent"
  /\ Len(flow.steps) = 2
  /\ flow.steps[1].type = "wait_selector"
  /\ flow.steps[2].type = "click_selector"
  /\ pc = "done"
  /\ exitCode = 1

\* C8: in interactive mode a plan without any state-changing step type is
\* rejected at load time, before any browser launch; a plan with at least one
\* passes the gate (the run directory is created).
C8_InteractiveQualityGate ==
  captureMode(flow) = "interactive" =>
    LET hasInteraction ==
          \E k \in 1..Len(flow.steps) :
            flow.steps[k].type \in {"click_selector", "type_selector", "fill", "press", "tab"}
    IN /\ ~hasInteraction =>
            /\ calls = <<>>
            /\ pc \in {"load", "done"}
            /\ pc = "done" => (exitCode = 1 /\ files = <<>>)
       /\ (hasInteraction /\ flow.goal_text \in {"absent", "null"} /\ pc # "load")
            => P_README \in DOMAIN files

C8_Witness ==
  /\ captureMode(flow) = "interactive"
  /\ flow.goal_text \in {"absent", "null"}
  /\ Len(flow.steps) = 2
  /\ \A k \in 1..2 : flow.steps[k].type \in {"wait_selector", "assert_url_contains"}
  /\ pc = "done"
  /\ exitCode = 1

\* C9: a step other than wait_selector that carries allow_multiple_matches
\* raises a PolicyViolation when it is executed, before any selector
\* resolution or page action of that step; the run ends with status error and
\* no later step executes.
C9_OverrideMisuseHalts ==
  \A k \in 1..Len(flow.steps) :
    (/\ flow.steps[k].allow_multiple_matches # "absent"
     /\ flow.steps[k].type # "wait_selector"
     /\ Executed(k)) =>
      LET e == StepEntries(k)[1]
      IN /\ e.result = "error"
         /\ e.error_message.kind = "PolicyViolation:allow_multiple_matches"
         /\ \A j \in 1..Len(calls) :
              calls[j].step_index = k + 1 => calls[j].op \in CaptureOps
         /\ runStatus = "error"
         /\ stepIndex = k + 1
         /\ interactionLog[Len(interactionLog)] = e

C9_Witness ==
  /\ Len(flow.steps) = 2
  /\ flow.steps[2].type = "fill"
  /\ flow.steps[2].allow_multiple_matches = "false"
  /\ Executed(2)
  /\ pc = "done"

HasGoalText(x) == x.goal_text \notin {"absent", "null"}

\* C10: a non-null goal_text aborts the run with a policy violation: at the
\* flow level before any browser launch, on a step before any resolution or
\* page action of that step; such a plan never ends with status success.
C10_GoalTextForbidden ==
  /\ HasGoalText(flow) =>
       /\ calls = <<>>
       /\ pc \in {"load", "done"}
       /\ pc = "done" => exitCode = 1
  /\ \A k \in 1..Len(flow.steps) :
       (HasGoalText(flow.steps[k]) /\ Executed(k)) =>
         LET e == StepEntries(k)[1]
         IN /\ e.result = "error"
            /\ e.error_message.kind \in
                 {"PolicyViolation:goal_text", "PolicyViolation:allow_multiple_matches"}
            /\ \A j \in 1..Len(calls) :
                 calls[j].step_index = k + 1 => calls[j].op \in CaptureOps
  /\ (HasGoalText(flow) \/ \E k \in 1..Len(flow.steps) : HasGoalText(flow.steps[k]))
       => runStatus # "success"

C10_Witness ==
  /\ pc = "done"
  /\ \E k \in 1..Len(flow.steps) :
       /\ HasGoalText(flow.steps[k])
       /\ Executed(k)
       /\ StepEntries(k)[1].error_message.kind = "PolicyViolation:goal_text"

\* a wait_selector step that takes the override path: allow_multiple_matches
\* is true, a selector is set and the policy checks pass
UsesOverride(s) ==
  /\ s.type = "wait_selector"
  /\ s.allow_multiple_matches = "true"
  /\ s.selector
  /\ s.goal_text \in {"absent", "null"}

\* the policy_override entries of the interaction log for plan step k
OverrideEntries(k) ==
  SelectSeq(interactionLog,
            LAMBDA e : e.action = "policy_override" /\ e.step_index = k + 1)

\* the policy_override events of the console log for plan step k
OverrideEvents(k) ==
  SelectSeq(consoleLog,
            LAMBDA e : e.type = "policy_override" /\ e.step_index = k + 1)

\* the selector_instability events of the console log for plan step k
InstabilityEvents(k) ==
  SelectSeq(consoleLog,
            LAMBDA e : e.type = "selector_instability" /\ e.step_index = k + 1)

\* the instability_log entries of the interaction log for plan step k
InstabilityEntries(k) ==
  SelectSeq(interactionLog,
            LAMBDA e : e.action = "instability_log" /\ e.step_index = k + 1)

\* the first and the final count sample of plan step k
FirstCount(k) == CallsAt(k, {"count"})[1].res
FinalCount(k) == CallsAt(k, {"count"})[2].res

\* some visibility probe of plan step k answered true
SawVisible(k) ==
  \E i \in 1..Len(CallsAt(k, {"isVisible"})) : CallsAt(k, {"isVisible"})[i].res = 1

\* the run halted at plan step k
HaltedAt(k) ==
  /\ runStatus = "error"
  /\ pc \in {"finally", "done"}
  /\ stepIndex = k + 1
  /\ interactionLog[Len(interactionLog)] = StepEntries(k)[1]

\* C11: a wait_selector step with allow_multiple_matches:true whose two count
\* samples are equal and at least 1, with a visible match, succeeds, and one
\* policy_override event is recorded for it in the console log and one in the
\* interaction log, carrying the observed count.
C11_StableOverrideSucceeds ==
  \A k \in 1..Len(flow.steps) :
    (/\ UsesOverride(flow.steps[k])
     /\ Executed(k)
     /\ Len(CallsAt(k, {"count"})) = 2
     /\ FirstCount(k) = FinalCount(k)
     /\ FinalCount(k) >= 1
     /\ SawVisible(k)) =>
      /\ StepEntries(k)[1].result = "success"
      /\ StepEntries(k)[1].error_message = NoError
      /\ Len(OverrideEvents(k)) = 1
      /\ OverrideEvents(k)[1].a = FinalCount(k)
      /\ Len(OverrideEntries(k)) = 1
      /\ OverrideEntries(k)[1].note = Note("stable", FinalCount(k), FinalCount(k))

C11_Witness ==
  \E k \in 1..Len(flow.steps) :
    /\ UsesOverride(flow.steps[k])
    /\ Executed(k)
    /\ FirstCount(k) = 2
    /\ FinalCount(k) = 2
    /\ StepEntries(k)[1].result = "success"
    /\ Len(OverrideEntries(k)) = 1
    /\ pc = "done"

\* C12: every execution of a wait_selector step with
\* allow_multiple_matches:true records a policy_override event in the console
\* log and in the interaction log, whether the wait succeeds or fails, and
\* the sealed policy_overrides.json holds every such entry.
C12_EveryOverrideUseAudited ==
  \A k \in 1..Len(flow.steps) :
    (UsesOverride(flow.steps[k]) /\ Executed(k)) =>
      /\ Len(OverrideEvents(k)) >= 1
      /\ Len(OverrideEntries(k)) >= 1
      /\ Sealed =>
           \E i \in 1..Len(files[P_PolicyOverrides].value) :
             files[P_PolicyOverrides].value[i] = OverrideEntries(k)[1]

\* C13: a wait_selector step with allow_multiple_matches:true succeeds only
\* if the final count is at least 1, both samples are equal and a match is
\* visible; with a final count of 0, with differing samples or with no visible
\* match the step fails and the run halts with status error.
C13_OverrideRequirements ==
  \A k \in 1..Len(flow.steps) :
    (UsesOverride(flow.steps[k]) /\ Executed(k)) =>
      LET e == StepEntries(k)[1]
          ok == /\ FinalCount(k) >= 1
                /\ FirstCount(k) = FinalCount(k)
                /\ SawVisible(k)
      IN /\ Len(CallsAt(k, {"count"})) = 2
         /\ (e.result = "success") <=> ok
         /\ FinalCount(k) = 0 => e.error_message = Err("NotFound", 0, 0)
         /\ (FinalCount(k) >= 1 /\ FirstCount(k) # FinalCount(k))
              => e.error_message = Err("Unstable", FirstCount(k), FinalCount(k))
         /\ (FinalCount(k) >= 1 /\ FirstCount(k) = FinalCount(k) /\ ~SawVisible(k))
              => /\ e.error_message = Err("NoVisibleMatch", FinalCount(k), 0)
                 /\ CallsAt(k, {"isVisible"}) # <<>>
         /\ ~ok => (e.result = "error" /\ HaltedAt(k))

C13_Witness ==
  /\ pc = "done"
  /\ Len(flow.steps) = 2
  /\ UsesOverride(flow.steps[1])
  /\ Executed(1)
  /\ FirstCount(1) = 2
  /\ FinalCount(1) = 2
  /\ StepEntries(1)[1].error_message = Err("NoVisibleMatch", 2, 0)
  /\ ~Executed(2)

\* C14: in strict resolution, when the two count samples differ, one
\* instability event with both counts and the window is logged (console log
\* and interaction log) and the final sample alone decides: final count 1
\* goes on to the action (2 -> 1 succeeds), final count above 1 fails with
\* the ambiguity error (1 -> 2), final count 0 fails as not found.
C14_InstabilityLoggedFinalDecides ==
  \A k \in 1..Len(flow.steps) :
    (/\ UsesStrictResolution(flow.steps[k])
     /\ Executed(k)
     /\ FirstCount(k) # FinalCount(k)) =>
      LET e == StepEntries(k)[1]
      IN /\ Len(InstabilityEvents(k)) = 1
         /\ InstabilityEvents(k)[1].a = FirstCount(k)
         /\ InstabilityEvents(k)[1].b = FinalCount(k)
         /\ InstabilityEvents(k)[1].window_ms = STABILIZE_MS
         /\ Len(InstabilityEntries(k)) = 1
         /\ InstabilityEntries(k)[1].note = Note("instability", FirstCount(k), FinalCount(k))
         /\ InstabilityEntries(k)[1].result = "info"
         /\ FinalCount(k) = 1 => e.error_message.kind \in {"none", "ActionError"}
         /\ FinalCount(k) > 1 => e.error_message = Err("Ambiguity", FinalCount(k), 0)
         /\ FinalCount(k) = 0 => e.error_message = Err("NotFound", 0, 0)

C14_Witness ==
  \E k \in 1..Len(flow.steps) :
    /\ flow.steps[k].type = "click_selector"
    /\ Executed(k)
    /\ FirstCount(k) = 2
    /\ FinalCount(k) = 1
    /\ StepEntries(k)[1].result = "success"
    /\ Len(InstabilityEvents(k)) = 1

\* the goal check ran: the interaction log ends with its verify_goal entry
GoalChecked ==
  /\ interactionLog # <<>>
  /\ interactionLog[Len(interactionLog)].action = "verify_goal"

GoalEntry == interactionLog[Len(interactionLog)]

\* the final count sample of the goal check (made at the index after the
\* last plan step)
GoalFinalCount == FinalCount(Len(flow.steps) + 1)

\* C15: the goal check runs only after every plan step succeeded; it is met
\* exactly when the final count is 1 for expectation present or 0 for
\* absent; an unmet goal ends the run with status error and the goal error;
\* the entry of the goal check has step_index "GOAL", its evidence record has
\* the next numeric index, and every other entry and record keeps its
\* numeric index.
C15_GoalCheckOutcome ==
  GoalChecked =>
    LET n == Len(flow.steps)
        met == \/ flow.goal = "present" /\ GoalFinalCount = 1
               \/ flow.goal = "absent" /\ GoalFinalCount = 0
    IN /\ flow.goal # "none"
       /\ \A k \in 1..n : Executed(k) /\ StepEntries(k)[1].result = "success"
       /\ (GoalEntry.result = "success") <=> met
       /\ ~met => /\ GoalEntry.result = "error"
                  /\ GoalEntry.error_message.kind \in {"GoalUnmet", "GoalAmbiguity"}
                  /\ runStatus = "error"
                  /\ runError = GoalEntry.error_message
                  /\ pc \in {"finally", "done"}
       /\ met => runStatus = "success"
       /\ GoalEntry.step_index = "GOAL"
       /\ Len(evidenceIndex) = n + 2
       /\ \A i \in 1..Len(evidenceIndex) : evidenceIndex[i].step_index = i
       /\ \A i \in 1..(Len(interactionLog) - 1) :
            /\ interactionLog[i].action # "verify_goal"
            /\ interactionLog[i].step_index \in 1..(n + 2)
            /\ interactionLog[i].action = "goto" => interactionLog[i].step_index = 1
       /\ \A k \in 1..n : StepEntries(k)[1].action = flow.steps[k].type

C15_Witness ==
  /\ GoalChecked
  /\ pc = "done"
  /\ flow.goal = "absent"
  /\ Len(flow.steps) = 1
  /\ GoalFinalCount = 1
  /\ GoalEntry.error_message = Err("GoalUnmet", 1, 0)
  /\ evidenceIndex[3].step_index = 3

\* C16: in the goal check a final count above 1 always fails the run with
\* the ambiguity error, for either expectation, and that error differs from
\* the one reported when a count of 0 or 1 does not meet the expectation.
C16_GoalAmbiguityDistinct ==
  GoalChecked =>
    /\ GoalFinalCount > 1 =>
         /\ GoalEntry.result = "error"
         /\ GoalEntry.error_message = Err("GoalAmbiguity", GoalFinalCount, 0)
         /\ runStatus = "error"
         /\ runError = GoalEntry.error_message
    /\ (GoalFinalCount <= 1 /\ GoalEntry.result = "error") =>
         /\ GoalEntry.error_message = Err("GoalUnmet", GoalFinalCount, 0)
         /\ GoalEntry.error_message.kind # "GoalAmbiguity"

C16_Witness ==
  /\ GoalChecked
  /\ pc = "done"
  /\ flow.goal = "absent"
  /\ GoalFinalCount = 2
  /\ runError = Err("GoalAmbiguity", 2, 0)

\* the run failed at run time on a policy violation, a step or the goal
RunTimeFailure ==
  \/ runError.kind \in {"FailedAtStep", "GoalUnmet", "GoalAmbiguity",
                        "PolicyViolation:goal_text"}
  \/ \E i \in 1..Len(interactionLog) : interactionLog[i].result = "error"

C18_ErrorsClassified ==
  (Sealed /\ runStatus = "error") =>
    LET md == files[P_RunMetadata].value
        banner == files[P_Status].value
        cause == IF runError.kind = "FailedAtStep" THEN runError.cause.kind
                 ELSE runError.kind
    IN /\ md.error = runError
       /\ banner["ERROR"].error = runError
       /\ "error_type" \in DOMAIN md
       /\ "ERROR TYPE" \in DOMAIN banner
       /\ cause = "PolicyViolation:allow_multiple_matches"
            => (md.error_type = "PolicyViolation"
                /\ banner["ERROR TYPE"].text = "PolicyViolation")
       /\ cause = "Ambiguity"
            => (md.error_type = "SelectorAmbiguity"
                /\ banner["ERROR TYPE"].text = "SelectorAmbiguity")

\* the manifest entry of path p, if any
ManifestEntries(p) ==
  SelectSeq(SealedManifest.files, LAMBDA f : f.path = p)

C20_ManifestListsPacketHash ==
  Sealed => Len(ManifestEntries(P_PacketHash)) >= 1

\* the path the repository's break tests read the sealed core manifest from
P_ManifestCore == S_VerificationDir \o S_ManifestCore

\* C21: every sealed run has 03_Verification/manifest_core.json, and
\* packet_hash.txt holds the SHA-256 of the bytes of that file.
C21_PacketHashSealsManifestCore ==
  Sealed =>
    /\ P_ManifestCore \in DOMAIN files
    /\ files[P_PacketHash].value[1] = sha256Bytes(files[P_ManifestCore])

\* C22: sanitizeNote applied to its own result returns that result again,
\* and the second application pushes no compliance_redaction event.
C22_RedactionIdempotent ==
  Len(sanitized) = 2 =>
    /\ sanitized[2].in = sanitized[1].out
    /\ sanitized[2].out = sanitized[1].out
    /\ sanitized[2].events = 0

C22_Witness ==
  /\ Len(sanitized) = 2
  /\ sanitized[1].events = 1
  /\ sanitized[1].in # sanitized[1].out
  /\ Len(noteLog) = 1

\* the objects and arrays a property or item v refers to directly
Refs(vals) == { vals[i].id : i \in { j \in 1..Len(vals) : vals[j].t = "ref" } }

Children(heap, id) ==
  IF heap[id].t = "array" THEN Refs(heap[id].items)
  ELSE Refs(SubSeq([i \in 1..Len(heap[id].props) |-> heap[id].props[i].val],
                   1, Len(heap[id].props)))

\* the nodes reachable from the nodes of S in zero or more steps
RECURSIVE ReachableFrom(_, _)
ReachableFrom(heap, S) ==
  LET T == S \cup UNION { Children(heap, id) : id \in S }
  IN IF T = S THEN S ELSE ReachableFrom(heap, T)

\* val contains a cycle: an object or array reachable from itself
Cyclic(val) ==
  \E id \in ReachableFrom(val.heap, {val.root.id}) :
    id \in ReachableFrom(val.heap, Children(val.heap, id))

\* the number of properties and items of val that refer to node id
ReferencesTo(val, id) ==
  LET heap == val.heap
      edges == { e \in ReachableFrom(heap, {val.root.id}) \X (1..Cardinality(ObjectKeys)) :
                   IF heap[e[1]].t = "array"
                   THEN e[2] <= Len(heap[e[1]].items) /\ heap[e[1]].items[e[2]] = JsRef(id)
                   ELSE e[2] <= Len(heap[e[1]].props) /\ heap[e[1]].props[e[2]].val = JsRef(id) }
  IN Cardinality(edges)

\* val is acyclic and refers to one of its nodes from two places
SharesNode(val) ==
  /\ ~Cyclic(val)
  /\ \E id \in DOMAIN val.heap : ReferencesTo(val, id) >= 2

\* C23: two acyclic values that differ only in the order in which the keys
\* of their objects were inserted are serialized to the same string, and the
\* items of an array keep their order in it.
C23_KeyOrderIndependent ==
  (Len(serialized) = 2 /\ ~Cyclic(serialized[1].of)) =>
    /\ serialized[1].result.threw = "none"
    /\ serialized[2].result.threw = "none"
    /\ serialized[1].result.str = serialized[2].result.str
    /\ LET root == serialized[1].of.heap[1]
           out == serialized[1].result.str.value
       IN root.t = "array" =>
            /\ out.t = "array"
            /\ Len(out.items) = Len(root.items)
            /\ \A i \in 1..Len(root.items) :
                 root.items[i].t = "number" => out.items[i] = root.items[i]

\* C24: stableStringify throws its cyclic-reference error on every value
\* that contains a cycle, and returns no string then.
C24_CycleAlwaysFails ==
  \A i \in 1..Len(serialized) :
    Cyclic(serialized[i].of) =>
      /\ serialized[i].result.threw = "Cyclic reference detected"
      /\ serialized[i].result.str = JsNull

C24_Witness ==
  /\ Len(serialized) = 1
  /\ Cyclic(serialized[1].of)
  /\ serialized[1].of.heap[1] = JsObject(<<[key |-> <<97>>, val |-> JsRef(2)]>>)
  /\ serialized[1].of.heap[2] = JsArray(<<JsNumber(0), JsRef(1)>>)
  /\ serialized[1].result.threw # "none"

\* C25: stableStringify returns a string for every acyclic value, one that
\* refers to the same object or array from two places included.
C25_AcyclicAlwaysSucceeds ==
  \A i \in 1..Len(serialized) :
    ~Cyclic(serialized[i].of) => serialized[i].result.threw = "none"

\* C26: two runs whose deliverable files are the same bytes write the same
\* manifest.json bytes and the same packet hash.
C26_SealDeterministic ==
  Len(packets) = 2 =>
    /\ packets[1][P_Manifest] = packets[2][P_Manifest]
    /\ packets[1][P_PacketHash] = packets[2][P_PacketHash]

\* C27: a verifier that is run on a sealed directory after a file was added
\* to it, a listed file was removed, the content of a listed file was
\* changed or the entries of the manifest were reordered does not pass it.
C27_VerifierRejectsAlterations ==
  (alteration # "none" /\ verdict.verify_packet # "none") =>
    verdict.verify_packet # "PASS: packet verified"


(***************************************************************************)
(* Evidence and log of a failing step.                                     *)
(***************************************************************************)
\* the evidence records of step index n
RecordsAt(n) == SelectSeq(evidenceIndex, LAMBDA r : r.step_index = n)

\* the entries of the interaction log that report an error
ErrorEntries == SelectSeq(interactionLog, LAMBDA e : e.result = "error")

\* C28: when a plan step fails, the evidence of that step is captured and
\* exactly one interaction-log entry with result error and the error's message
\* is appended: the run status never is error for a failed step without them,
\* and they are there when the finally block is about to seal the packet.
C28_FailedStepEvidencedAndLogged ==
  /\ (runStatus = "error" /\ runError.kind = "FailedAtStep") =>
       LET idx == runError.step
           ents == SelectSeq(interactionLog,
                             LAMBDA e : IsPlanStepEntry(e) /\ e.step_index = idx)
       IN /\ Len(RecordsAt(idx)) = 1
          /\ \E j \in 1..Len(calls) :
               calls[j].step_index = idx /\ calls[j].op = "screenshot"
          /\ Len(ents) = 1
          /\ ErrorEntries = ents
          /\ ents[1].error_message = runError.cause
          /\ interactionLog[Len(interactionLog)] = ents[1]
          /\ pc \in {"finally", "done"}
          /\ pc = "finally" => ~Sealed
  /\ \A i \in 1..Len(interactionLog) :
       LET e == interactionLog[i]
       IN (IsPlanStepEntry(e) /\ e.result = "error") =>
            /\ runStatus = "error"
            /\ runError = FailedAtStep(e.step_index, e.error_message)

C28_Witness ==
  /\ pc = "finally"
  /\ runStatus = "error"
  /\ runError.kind = "FailedAtStep"
  /\ runError.step = 3
  /\ Len(RecordsAt(3)) = 1
  /\ ErrorEntries # <<>>


(***************************************************************************)
(* The evidence index after a run.                                         *)
(***************************************************************************)
\* C29: after any run the evidence index has exactly one record for each step
\* that was started (the initial navigation, every executed plan step, the
\* goal check if performed), numbered 1, 2, 3, ... in append order, and no two
\* records share a step index or a screenshot file name.
C29_OneRecordPerStartedStep ==
  pc \in {"finally", "done"} =>
    /\ Len(evidenceIndex) = stepIndex
    /\ \A i \in 1..Len(evidenceIndex) : evidenceIndex[i].step_index = i
    /\ \A i, j \in 1..Len(evidenceIndex) :
         i # j => /\ evidenceIndex[i].step_index # evidenceIndex[j].step_index
                  /\ evidenceIndex[i].rel_path # evidenceIndex[j].rel_path


(***************************************************************************)
(* Failures of one artifact capture.                                       *)
(***************************************************************************)
\* the capture calls that threw
FailedCaptures == { j \in 1..Len(calls) : calls[j].op \in CaptureOps /\ calls[j].res = 0 }

\* the console log has an evidence_error event of step n about the call op
Audited(n, op) ==
  \E i \in 1..Len(consoleLog) :
    /\ consoleLog[i].type = "evidence_error"
    /\ consoleLog[i].step_index = n
    /\ consoleLog[i].message =
         (CASE op = "screenshot" -> "Screenshot failed"
            [] op = "content" -> "HTML capture failed"
            [] op = "accessibility.snapshot" -> "AX snapshot failed")

\* a failed capture call is survived: the remaining captures of the step are
\* made, the evidence record is appended, the run status is error only for an
\* error other than the capture's, and a run without such an error goes
\* through the whole plan
Survived(n) ==
  /\ \A op \in CaptureOps :
       \E j \in 1..Len(calls) : calls[j].step_index = n /\ calls[j].op = op
  /\ Len(RecordsAt(n)) = 1
  /\ runStatus = "error" =>
       (ErrorEntries # <<>> \/ runError.kind = "PolicyViolation:goal_text")
  /\ (pc \in {"finally", "done"} /\ ErrorEntries = <<>> /\ runError.kind = "none") =>
       (runStatus = "success" /\ stepIndex >= Len(flow.steps) + 1)

\* C30: a failure of any single artifact capture inside captureEvidence (the
\* screenshot, the HTML, the accessibility snapshot) is caught, recorded as an
\* audit event in the console log, and neither changes the run status nor
\* stops later steps; the evidence record is still appended.
C30_CaptureFailureAuditedAndSurvived ==
  \A j \in FailedCaptures :
    /\ Audited(calls[j].step_index, calls[j].op)
    /\ Survived(calls[j].step_index)


(***************************************************************************)
(* Order of the interaction log.                                           *)
(***************************************************************************)
\* the entries whose step_index is a number (the goal entry's is "GOAL")
HasNumericIndex(e) == e.action # "verify_goal"

\* the goal entry, if present, is the last entry of the log
GoalEntryLast ==
  \A i \in 1..Len(interactionLog) :
    interactionLog[i].action = "verify_goal" => i = Len(interactionLog)

\* C31 as stated: after any run the interaction log is strictly ordered by
\* step_index in append order: each entry with a numeric index has a larger
\* index than every earlier entry, and the GOAL entry, if present, is last.
C31_LogStrictlyOrdered ==
  pc \in {"finally", "done"} =>
    /\ \A i, j \in 1..Len(interactionLog) :
         (i < j /\ HasNumericIndex(interactionLog[i]) /\ HasNumericIndex(interactionLog[j]))
           => interactionLog[i].step_index < interactionLog[j].step_index
    /\ GoalEntryLast

\* C31 amended: after any run the numeric step indexes of the interaction log
\* never decrease in append order; two entries share an index only when the
\* earlier one is an info entry (instability_log, policy_override) of that
\* step; and the GOAL entry, if present, is the last entry.
C31_LogOrderedByStep ==
  pc \in {"finally", "done"} =>
    /\ \A i, j \in 1..Len(interactionLog) :
         (i < j /\ HasNumericIndex(interactionLog[i]) /\ HasNumericIndex(interactionLog[j]))
           => /\ interactionLog[i].step_index <= interactionLog[j].step_index
              /\ interactionLog[i].step_index = interactionLog[j].step_index
                   => /\ interactionLog[i].result = "info"
                      /\ interactionLog[i].action \in {"instability_log", "policy_override"}
    /\ GoalEntryLast

C31_Witness ==
  /\ pc = "done"
  /\ \E i, j \in 1..Len(interactionLog) :
       /\ i < j
       /\ interactionLog[i].action = "instability_log"
       /\ interactionLog[j].action = "wait_selector"
       /\ interactionLog[i].step_index = interactionLog[j].step_index
  /\ interactionLog[Len(interactionLog)].action = "verify_goal"


(***************************************************************************)
(* Step indexing.                                                          *)
(***************************************************************************)
\* the entries of the plan's steps, in append order
PlanEntries == SelectSeq(interactionLog, IsPlanStepEntry)

\* the info entries emitted so far
InfoEntries == SelectSeq(interactionLog, LAMBDA e : e.result = "info")

\* C32: step indexing is deterministic: step index 1 is always the initial
\* navigation, and the k-th plan step is logged and evidenced at step_index
\* k + 1, whatever instability or override info entries were emitted before it.
C32_DeterministicStepIndex ==
  /\ \A i \in 1..Len(interactionLog) :
       LET e == interactionLog[i]
       IN /\ e.action = "goto" => (e.step_index = 1 /\ i = 1)
          /\ (HasNumericIndex(e) /\ e.step_index = 1) => e.action = "goto"
  /\ evidenceIndex # <<>> =>
       (evidenceIndex[1].step_index = 1 /\ evidenceIndex[1].rel_path = ScreenshotPath(S_GEN, 1))
  /\ Len(PlanEntries) <= Len(flow.steps)
  /\ \A k \in 1..Len(PlanEntries) :
       /\ PlanEntries[k].step_index = k + 1
       /\ PlanEntries[k].action = flow.steps[k].type
       /\ Len(RecordsAt(k + 1)) = 1
       /\ evidenceIndex[k + 1] = RecordsAt(k + 1)[1]
       /\ RecordsAt(k + 1)[1].allegation_id = PlanEntries[k].allegation_id
       /\ RecordsAt(k + 1)[1].rel_path = ScreenshotPath(RecordsAt(k + 1)[1].folder, k + 1)

C32_Witness ==
  /\ Len(PlanEntries) = 2
  /\ Len(InfoEntries) >= 2
  /\ \E i \in 1..Len(interactionLog) :
       /\ interactionLog[i].action = "policy_override"
       /\ interactionLog[i].step_index = 2
  /\ PlanEntries[2].step_index = 3


(***************************************************************************)
(* Redaction of the persisted notes.                                       *)
(***************************************************************************)
\* a case-insensitive, word-bounded match of a banned term
HasBannedTerm(v) ==
  v.t = "string" /\ \E n \in 1..Len(NOTE_BANNED_PATTERNS) : RegExpTest(NOTE_BANNED_PATTERNS[n], v.s)

\* C33: every note persisted in the interaction log that originates from free
\* text of the plan (a step's note, the flow's goal description) has passed
\* through redaction: no such note contains a match of any banned term.
C33_PersistedNotesRedacted ==
  \A i \in 1..Len(persisted.log) : ~HasBannedTerm(persisted.log[i].note)


(***************************************************************************)
(* The seal is the last write of the run.                                  *)
(***************************************************************************)
\* every entry of the manifest in fls has the sha256 and the size of the file
\* on disk, and every file on disk but the two seal files has an entry
ManifestMatchesDisk(fls) ==
  LET listed == fls[P_Manifest].value.files
  IN /\ \A i \in 1..Len(listed) :
          /\ listed[i].path \in DOMAIN fls
          /\ listed[i].sha256 = sha256Bytes(fls[listed[i].path])
          /\ listed[i].size_bytes = statSize(fls[listed[i].path])
     /\ \A p \in DOMAIN fls \ {P_Manifest, P_PacketHash} :
          \E i \in 1..Len(listed) : listed[i].path = p

\* C34: the packet hash is computed exactly once per run, after every other
\* deliverable file (STATUS.txt, logs, metadata, report, manifest) has been
\* written, and no file of the deliverable is written after the manifest walk
\* has hashed it: at process exit every manifest entry matches the file on disk.
C34_SealedOnceAfterAllWrites ==
  [][ /\ (P_PacketHash \in DOMAIN files' /\ P_PacketHash \notin DOMAIN files) =>
           /\ pc = "finally" /\ pc' = "done"
           /\ {P_Status, P_InteractionLog, P_EvidenceIndex, P_PolicyOverrides, P_Console,
               P_RunMetadata, P_ExecutionReport, P_Manifest} \subseteq DOMAIN files'
           /\ files'[P_PacketHash].value[1] = sha256Bytes(files'[P_Manifest])
           /\ ManifestMatchesDisk(files')
      /\ P_PacketHash \in DOMAIN files => files' = files
      /\ (pc' = "done" /\ exitCode' = 0) => P_PacketHash \in DOMAIN files'
    ]_vars

C34_Witness ==
  /\ pc = "done"
  /\ Sealed
  /\ ManifestMatchesDisk(files)
  /\ Len(SealedManifest.files) >= 9
  /\ ScreenshotPath(S_GEN, 1) \in DOMAIN files


(***************************************************************************)
(* One step at a time.                                                     *)
(***************************************************************************)
\* step n has its evidence record and its own log entry in the index eidx and
\* the log ilog
StepCompleted(n, eidx, ilog) ==
  /\ Len(SelectSeq(eidx, LAMBDA r : r.step_index = n)) = 1
  /\ \E i \in 1..Len(ilog) :
       /\ HasNumericIndex(ilog[i])
       /\ ilog[i].step_index = n
       /\ ilog[i].result \in {"success", "error"}

\* C35: the engine never starts a step before the previous step, its evidence
\* capture and its interaction-log entry included, has completed: whenever a
\* call of step n is issued, the record and the entry of every earlier step
\* are already appended, and no call of an earlier step follows it.
C35_StepsStrictlySequential ==
  [][ \A j \in (Len(calls) + 1)..Len(calls') :
        LET n == calls'[j].step_index
        IN n >= 2 =>
             /\ \A m \in 1..(n - 1) : StepCompleted(m, evidenceIndex, interactionLog)
             /\ \A i \in 1..(j - 1) : calls'[i].step_index <= n
             /\ calls'[j].op \notin CaptureOps =>
                  \A i \in 1..(j - 1) :
                    calls'[i].step_index = n => calls'[i].op \notin CaptureOps
    ]_vars

C35_Witness ==
  /\ Len(PlanEntries) = 2
  /\ StepCompleted(2, evidenceIndex, interactionLog)
  /\ StepCompleted(3, evidenceIndex, interactionLog)
  /\ \E i, j \in 1..Len(calls) :
       /\ calls[i].step_index = 2 /\ calls[i].op = "click"
       /\ calls[j].step_index = 3 /\ calls[j].op \notin CaptureOps


(***************************************************************************)
(* The sealed run status.                                                  *)
(***************************************************************************)
\* the entries of a log that are a step's own: the navigation's, a plan
\* step's or the goal check's
OwnEntries(ilog) == SelectSeq(ilog, LAMBDA e : e.result # "info")

\* C38: the sealed run_metadata.status is always success or error, never
\* running; it is success only if the navigation entry, every plan step's
\* entry and the goal entry (when a goal is set) all have result success; and
\* it is error exactly when run_metadata.error is non-null: no sealed packet
\* reports success while its interaction log has an entry with result error.
C38_SealedStatusTruthful ==
  Sealed =>
    LET md == files[P_RunMetadata].value
        ilog == files[P_InteractionLog].value
        own == OwnEntries(ilog)
    IN /\ md.status \in {"success", "error"}
       /\ md.status = "success" =>
            /\ Len(own) = 1 + Len(flow.steps) + (IF flow.goal = "none" THEN 0 ELSE 1)
            /\ own[1].action = "goto"
            /\ \A k \in 1..Len(flow.steps) : own[k + 1].action = flow.steps[k].type
            /\ flow.goal # "none" => own[Len(own)].action = "verify_goal"
            /\ \A i \in 1..Len(own) : own[i].result = "success"
            /\ \A i \in 1..Len(ilog) : ilog[i].result # "error"
       /\ (md.status = "error") <=> (md.error # NoError)

C38_Witness ==
  /\ Sealed
  /\ files[P_RunMetadata].value.status = "success"
  /\ Len(flow.steps) = 2
  /\ flow.goal # "none"
  /\ Len(files[P_InteractionLog].value) >= 5


(***************************************************************************)
(* The hash chain of the journal.                                          *)
(***************************************************************************)
\* the chain of engine e is rooted at the declared seed, every entry is
\* linked to the one before it and hashed over its prev_hash and canonical
\* data, the head is the hash of the last entry, and the journal file holds
\* the entries
ChainLinked(eng) ==
  LET c == eng.chain
  IN /\ eng.journal = (IF eng.outputDir
                       THEN SubSeq([i \in 1..Len(c) |-> JournalLine(c[i])], 1, Len(c))
                       ELSE <<>>)
     /\ \A i \in 1..Len(c) :
          /\ c[i].prev_hash = (IF i = 1 THEN Seed(eng.manifest) ELSE c[i - 1].hash)
          /\ c[i].hash = sha256Bytes(<<c[i].prev_hash, canonical(c[i].data)>>)
     /\ eng.prevHash = (IF c = <<>> THEN Seed(eng.manifest) ELSE c[Len(c)].hash)

\* C36: after any sequence of captureStep calls the first entry's prev_hash is
\* the declared seed, every later entry's prev_hash is the hash of the entry
\* before it, each entry's hash is SHA-256(prev_hash || canonical data), and
\* the chain head is the hash of the last entry; a capture that finds no
\* element appends nothing and leaves the chain head unchanged.
C36_JournalChained ==
  /\ \A e \in EngineIds : ChainLinked(engines[e])
  /\ [][ \A e \in EngineIds :
           /\ ChainLinked(engines'[e])
           /\ (engines'[e] # engines[e] /\ engines'[e].returned = "null") =>
                /\ engines'[e].journal = engines[e].journal
                /\ engines'[e].chain = engines[e].chain
                /\ engines'[e].prevHash = engines[e].prevHash
       ]_vars

C36_Witness ==
  /\ Len(engines[1].journal) = 2
  /\ engines[1].manifest.hash = "5eed"
  /\ Len(engines[2].chain) = 1
  /\ engines[2].returned = "null"

\* C37: a verifier that recomputes the hash chain from the recorded journal
\* alone detects every reordering of entries and every truncation of the
\* journal, removal of one or more entries from its end included.
C37_ReorderAndTruncationDetected ==
  (chainVerdict # "none" /\ presented.kind \in
     {"reordered", "truncated at the end", "truncated at the start"}) =>
    chainVerdict = "chain broken"

\* C40: the entry hash binds the whole recorded data: for a fixed prev_hash,
\* two telemetry records that differ in any value, a field nested inside the
\* accessibility tree or the styles object included, have different canonical
\* strings and different entry hashes.
C40_HashBindsWholeRecord ==
  \A e1, e2 \in EngineIds :
    \A i \in 1..Len(engines[e1].chain), j \in 1..Len(engines[e2].chain) :
      LET a == engines[e1].chain[i]
          b == engines[e2].chain[j]
      IN (a.prev_hash = b.prev_hash /\ a.data # b.data) =>
           /\ canonical(a.data) # canonical(b.data)
           /\ a.hash # b.hash


(***************************************************************************)
(* The seal of the legacy executor.                                        *)
(***************************************************************************)
\* C39: in ect.backup.js no file listed in manifest.json is written after its
\* manifest entry was computed: at process exit every listed file,
\* run_metadata.json and journal.ndjson included, still has the sha256 and
\* size the manifest records, and the packet verifier accepts the untouched
\* packet.
C39_LegacyPacketVerifies ==
  legacy.pc = "exited" =>
    /\ \A i \in 1..Len(legacy.dir[S_Manifest].value.files) :
         LET f == legacy.dir[S_Manifest].value.files[i]
         IN /\ f.path \in DOMAIN legacy.dir
            /\ sha256Bytes(legacy.dir[f.path]) = f.sha256
            /\ statSize(legacy.dir[f.path]) = f.size_bytes
    /\ legacy.verdict \in {"none", "PASS: packet verified"}


=============================================================================
